---------------------------- MODULE Spec2Model ----------------------------
(***************************************************************************)
(* A model of the chatbot reply resolver of app/services/gemini.py: model  *)
(* discovery behind functools.lru_cache, candidate ordering through the    *)
(* alias graph, the single provider call and the continuation loop of      *)
(* get_gemini_reply; the text screen of app/services/moderation.py that   *)
(* calls it; and, on the database, the category handlers of                *)
(* app/routes/admin.py and the delete handlers of app/routes/muro.py.      *)
(*                                                                         *)
(* Representation.  A Python str is a sequence of one-character strings.   *)
(* A model name is a sequence of path segments (the parts between '/'):    *)
(* "models/gemini-pro" is <<"models", "gemini-pro">>.  Optional[...] uses  *)
(* the value None below.  A dict is a function; a dict the code shares by  *)
(* reference lives in the heap and is named by its index there.            *)
(***************************************************************************)
EXTENDS Integers, Sequences, FiniteSets, TLC

(***************************************************************************)
(* Text primitives (str.strip, str.rstrip, str.upper, str.count,           *)
(* str.splitlines, str.split) on sequences of characters.                  *)
(***************************************************************************)
None == <<"<None>">>

WS == {" ", "\t", "\n", "\r"}

LineBreaks == {"\n", "\r"}

Digits == {"0", "1", "2", "3", "4", "5", "6", "7", "8", "9"}

BULLET == "U+2022"

ELLIPSIS == "U+2026"

RDQUOTE == "U+201D"

DQUOTE == "U+0022"

BACKTICK == "U+0060"

RECURSIVE LStrip(_)
LStrip(t) ==
    IF t # <<>> /\ Head(t) \in WS THEN LStrip(Tail(t)) ELSE t

RECURSIVE RStrip(_)
RStrip(t) ==
    IF t # <<>> /\ t[Len(t)] \in WS THEN RStrip(SubSeq(t, 1, Len(t) - 1)) ELSE t

StrStrip(t) == LStrip(RStrip(t))

LowerCase ==
    <<"a", "b", "c", "d", "e", "f", "g", "h", "i", "j", "k", "l", "m",
      "n", "o", "p", "q", "r", "s", "t", "u", "v", "w", "x", "y", "z">>

UpperCase ==
    <<"A", "B", "C", "D", "E", "F", "G", "H", "I", "J", "K", "L", "M",
      "N", "O", "P", "Q", "R", "S", "T", "U", "V", "W", "X", "Y", "Z">>

UpperChar(c) ==
    IF \E i \in 1..Len(LowerCase) : LowerCase[i] = c
    THEN UpperCase[CHOOSE i \in 1..Len(LowerCase) : LowerCase[i] = c]
    ELSE c

StrUpper(t) == [i \in 1..Len(t) |-> UpperChar(t[i])]

RECURSIVE Concat(_)
Concat(ss) == IF ss = <<>> THEN <<>> ELSE Head(ss) \o Concat(Tail(ss))

RECURSIVE Rep(_, _)
Rep(t, n) == IF n = 0 THEN <<>> ELSE t \o Rep(t, n - 1)

\* str.count("**"): non-overlapping occurrences, scanned left to right.  In a
\* run of asterisks the occurrences start at the run's 1st, 3rd, ... place.
StarsBefore(t, i) ==
    LET others == {j \in 1..(i - 1) : t[j] # "*"}
    IN  IF others = {} THEN i - 1
        ELSE i - 1 - (CHOOSE j \in others : \A k \in others : k <= j)

CountDoubleStar(t) ==
    Cardinality({i \in 1..(Len(t) - 1) :
                    /\ t[i] = "*"
                    /\ t[i + 1] = "*"
                    /\ StarsBefore(t, i) % 2 = 0})

CountChar(t, c) == Cardinality({i \in 1..Len(t) : t[i] = c})

\* splitlines()[-1] of a text that does not end in a line break.
LastLine(t) ==
    LET brk == {i \in 1..Len(t) : t[i] \in LineBreaks}
        from == IF brk = {} THEN 1 ELSE (CHOOSE i \in brk : \A j \in brk : j <= i) + 1
    IN  SubSeq(t, from, Len(t))

\* len(str.split()): the number of maximal runs of non-whitespace.
WordCount(t) ==
    Cardinality({i \in 1..Len(t) : t[i] \notin WS /\ (i = 1 \/ t[i - 1] \in WS)})

(***************************************************************************)
(* _OPEN_LIST_RE = (?:^|\n)(?:[-*•]|(?:\d+\.))\s+[^\n]*$  searched in  *)
(* a text without trailing whitespace (no MULTILINE flag: ^ is the start   *)
(* of the text, $ its end).  MarkerEnds(t, p) is the set of positions      *)
(* right after a list marker that starts at p.                             *)
(***************************************************************************)
MarkerEnds(t, p) ==
    {p + 1 : x \in IF t[p] \in {"-", "*", BULLET} THEN {0} ELSE {}}
    \cup {q + 1 : q \in {q \in (p + 1)..Len(t) :
                            /\ t[q] = "."
                            /\ \A i \in p..(q - 1) : t[i] \in Digits}}

OpenListSearch(t) ==
    \E p \in 1..Len(t) :
        /\ p = 1 \/ t[p - 1] = "\n"
        /\ \E q \in MarkerEnds(t, p) :
              \E r \in q..Len(t) :
                  \* \s+ takes t[q..r], [^\n]* the rest up to the end
                  /\ \A i \in q..r : t[i] \in WS
                  /\ \A i \in (r + 1)..Len(t) : t[i] # "\n"

(***************************************************************************)
(* gemini.py: the truncation heuristic.                                    *)
(***************************************************************************)
MAX_TOKENS == <<"M", "A", "X", "_", "T", "O", "K", "E", "N", "S">>

STOP == <<"S", "T", "O", "P">>

NormalizeFinishReason(value) ==
    IF value = None THEN None
    ELSE LET v == StrStrip(value)
         IN  IF v # <<>> THEN StrUpper(v) ELSE None

DanglingEnd == {"-", BULLET, ":", ";", ","}

SentenceEnd == {".", "!", "?", ELLIPSIS, ")", "]", DQUOTE, RDQUOTE, "'"}

FourWords == 4

LooksLikeTruncatedMarkdown(text) ==
    LET stripped == RStrip(text)
        last_line == StrStrip(LastLine(stripped))
    IN  IF stripped = <<>> THEN FALSE
        ELSE IF CountDoubleStar(stripped) % 2 = 1 THEN TRUE
        ELSE IF CountChar(stripped, BACKTICK) % 2 = 1 THEN TRUE
        ELSE IF OpenListSearch(stripped) THEN TRUE
        ELSE IF stripped[Len(stripped)] \in DanglingEnd THEN TRUE
        ELSE /\ last_line # <<>>
             /\ last_line[Len(last_line)] \notin SentenceEnd
             /\ WordCount(last_line) >= FourWords

ShortReplyLen == 80

\* The test with the length of the text looked at before the finish reason.
NeedsContinuationShortFirst(text, finish_reason) ==
    LET normalized_reason == NormalizeFinishReason(finish_reason)
    IN  IF Len(StrStrip(text)) < ShortReplyLen THEN FALSE
        ELSE IF normalized_reason = MAX_TOKENS THEN TRUE
        ELSE IF normalized_reason # None /\ normalized_reason \notin {STOP, MAX_TOKENS}
             THEN FALSE
        ELSE LooksLikeTruncatedMarkdown(text)

\* The test without the rule for short texts.
NeedsContinuationAnyLength(text, finish_reason) ==
    LET normalized_reason == NormalizeFinishReason(finish_reason)
    IN  IF normalized_reason = MAX_TOKENS THEN TRUE
        ELSE IF normalized_reason # None /\ normalized_reason \notin {STOP, MAX_TOKENS}
             THEN FALSE
        ELSE LooksLikeTruncatedMarkdown(text)

\* The test without the rule for the other finish reasons.
NeedsContinuationNoTerminal(text, finish_reason) ==
    LET normalized_reason == NormalizeFinishReason(finish_reason)
    IN  IF normalized_reason = MAX_TOKENS THEN TRUE
        ELSE IF Len(StrStrip(text)) < ShortReplyLen THEN FALSE
        ELSE LooksLikeTruncatedMarkdown(text)

NeedsContinuation(text, finish_reason) ==
    LET normalized_reason == NormalizeFinishReason(finish_reason)
    IN  IF normalized_reason = MAX_TOKENS THEN TRUE
        ELSE IF normalized_reason # None /\ normalized_reason \notin {STOP, MAX_TOKENS}
             THEN FALSE
        ELSE IF Len(StrStrip(text)) < ShortReplyLen THEN FALSE
        ELSE LooksLikeTruncatedMarkdown(text)

(***************************************************************************)
(* gemini.py: contents of a generate-content request.                      *)
(***************************************************************************)
CONTINUATION_PROMPT == <<"C", "o", "n", "t", "i", "n", "u", "a">>

InitialContents(message) == <<[role |-> "user", text |-> message]>>

\* The continuation request with the two texts in each other's place.
ContinuationContentsSwapped(original_message, accumulated_response) ==
    <<[role |-> "user", text |-> accumulated_response],
      [role |-> "model", text |-> original_message],
      [role |-> "user", text |-> CONTINUATION_PROMPT]>>

ContinuationContents(original_message, accumulated_response) ==
    <<[role |-> "user", text |-> original_message],
      [role |-> "model", text |-> accumulated_response],
      [role |-> "user", text |-> CONTINUATION_PROMPT]>>

(***************************************************************************)
(* gemini.py: the alias table, the built-in priority order, API versions.  *)
(***************************************************************************)
M(s) == <<s>>

ALIAS_PAIRS ==
    { <<M("gemini-1.5-pro-latest"), M("gemini-pro-latest")>>,
      <<M("gemini-1.5-pro-latest"), M("gemini-2.5-pro")>>,
      <<M("gemini-1.5-pro"), M("gemini-pro-latest")>>,
      <<M("gemini-1.5-pro"), M("gemini-2.5-pro")>>,
      <<M("gemini-pro"), M("gemini-pro-latest")>>,
      <<M("gemini-1.0-pro"), M("gemini-pro-latest")>>,
      <<M("gemini-1.0-pro-latest"), M("gemini-pro-latest")>>,
      <<M("gemini-1.5-flash-latest"), M("gemini-flash-latest")>>,
      <<M("gemini-1.5-flash-latest"), M("gemini-2.5-flash")>>,
      <<M("gemini-1.5-flash"), M("gemini-flash-latest")>>,
      <<M("gemini-1.5-flash"), M("gemini-2.5-flash")>>,
      <<M("gemini-flash-latest"), M("gemini-2.5-flash")>>,
      <<M("gemini-1.5-flash-8b"), M("gemini-2.0-flash-lite")>>,
      <<M("gemini-1.5-flash-8b"), M("gemini-2.5-flash-lite")>>,
      <<M("gemini-1.5-flash-8b-latest"), M("gemini-2.0-flash-lite")>>,
      <<M("gemini-1.5-flash-8b-latest"), M("gemini-2.5-flash-lite")>>,
      <<M("gemini-2.0-flash-lite"), M("gemini-2.5-flash-lite")>> }

\* The graph with each pair entered in one direction only.
ForwardAliases(name) == {p[2] : p \in {q \in ALIAS_PAIRS : q[1] = name}}

\* MODEL_ALIAS_GRAPH.get(name, ()): the set of names one alias hop away.
MODEL_ALIAS_GRAPH(name) ==
    {p[2] : p \in {q \in ALIAS_PAIRS : q[1] = name}}
    \cup {p[1] : p \in {q \in ALIAS_PAIRS : q[2] = name}}

DEFAULT_MODEL_ORDER ==
    << M("gemini-2.5-flash"), M("gemini-flash-latest"), M("gemini-2.5-flash-lite"),
       M("gemini-2.0-flash"), M("gemini-2.0-flash-lite"), M("gemini-2.5-pro"),
       M("gemini-pro-latest"), M("gemini-1.5-pro-latest"),
       M("gemini-1.5-flash-latest"), M("gemini-1.5-flash-8b-latest") >>

V1BETA == <<"v", "1", "b", "e", "t", "a">>

V1 == <<"v", "1">>

RECURSIVE Dedup(_, _)
Dedup(ordered, seen) ==
    IF ordered = <<>> THEN <<>>
    ELSE LET version == Head(ordered)
         IN  IF version # <<>> /\ version \notin seen
             THEN <<version>> \o Dedup(Tail(ordered), seen \cup {version})
             ELSE Dedup(Tail(ordered), seen)

VersionCandidates(version_hint) ==
    LET hinted == IF version_hint # None /\ version_hint # <<>>
                  THEN <<StrStrip(version_hint)>> ELSE <<>>
    IN  Dedup(hinted \o <<V1BETA, V1>>, {})

(***************************************************************************)
(* Orders the code takes from the Python runtime.  sorted() compares the   *)
(* names as strings: SORTED_NAMES lists the names of the model in that     *)
(* order.  Iterating a set of str follows the process's string hashing:    *)
(* a hash order is a sequence of the alias names, a set being iterated in  *)
(* the order its members appear there.                                     *)
(***************************************************************************)
SORTED_NAMES ==
    << <<"aqa">>, <<"custom-model">>, <<"embedding-001">>,
       <<"gemini-1.0-pro">>, <<"gemini-1.0-pro-latest">>, <<"gemini-1.5-flash">>,
       <<"gemini-1.5-flash-8b">>, <<"gemini-1.5-flash-8b-latest">>,
       <<"gemini-1.5-flash-latest">>, <<"gemini-1.5-pro">>,
       <<"gemini-1.5-pro-latest">>, <<"gemini-2.0-flash">>,
       <<"gemini-2.0-flash-lite">>, <<"gemini-2.5-flash">>,
       <<"gemini-2.5-flash-lite">>, <<"gemini-2.5-pro">>,
       <<"gemini-flash-latest">>, <<"gemini-pro">>, <<"gemini-pro-latest">>,
       <<"x", "gemini-pro">> >>

Range(f) == {f[i] : i \in DOMAIN f}

Reverse(q) == [i \in 1..Len(q) |-> q[Len(q) + 1 - i]]

InOrder(S, order) ==
    LET Member(n) == n \in S IN SelectSeq(order, Member)

\* sorted() in descending order.
SortedDescending(S) == InOrder(S, Reverse(SORTED_NAMES))

Sorted(S) == InOrder(S, SORTED_NAMES)

HashOrders == {SORTED_NAMES, Reverse(SORTED_NAMES)}

(***************************************************************************)
(* gemini.py: _expand_aliases and _build_candidate_list.                   *)
(***************************************************************************)
\* The test of truth taking None alone as false.
FalsyNoneOnly(name) == name = None

Falsy(name) == name = None \/ name = <<"">>

RECURSIVE ExpandLoop(_, _, _, _)
ExpandLoop(queue, seen, ordered, hash_order) ==
    IF queue = <<>> THEN ordered
    ELSE LET current == Head(queue)
             rest == Tail(queue)
             seen2 == seen \cup {current}
         IN  IF current \in seen
             THEN ExpandLoop(rest, seen, ordered, hash_order)
             ELSE ExpandLoop(
                      rest \o InOrder(MODEL_ALIAS_GRAPH(current) \ seen2, hash_order),
                      seen2, Append(ordered, current), hash_order)

ExpandAliases(name, hash_order) ==
    IF Falsy(name) THEN <<>> ELSE ExpandLoop(<<name>>, {}, <<>>, hash_order)

\* The loop body without the test on seen.
AddEachAgain(acc, candidates, available_names) ==
    [ordered |-> acc.ordered \o
                     SelectSeq(candidates,
                               LAMBDA c : available_names = {} \/ c \in available_names),
     seen |-> acc.seen \cup Range(candidates)]

\* The loop body keeping the names of the catalog only, also when the
\* catalog is empty.
AddEachOfCatalog(acc, candidates, available_names) ==
    LET kept == SelectSeq(candidates,
                          LAMBDA c : c \in available_names /\ c \notin acc.seen)
    IN  [ordered |-> acc.ordered \o kept, seen |-> acc.seen \cup Range(kept)]

\* The loop bodies of _build_candidate_list: acc is [ordered, seen].
RECURSIVE AddEach(_, _, _)
AddEach(acc, candidates, available_names) ==
    IF candidates = <<>> THEN acc
    ELSE LET candidate == Head(candidates)
             skip == \/ available_names # {} /\ candidate \notin available_names
                     \/ candidate \in acc.seen
         IN  AddEach(
                 IF skip THEN acc
                 ELSE [ordered |-> Append(acc.ordered, candidate),
                       seen |-> acc.seen \cup {candidate}],
                 Tail(candidates), available_names)

AddWithAliases(acc, name, available_names, hash_order) ==
    AddEach(acc, ExpandAliases(name, hash_order), available_names)

\* The test on next makes TLC evaluate it before the next source is taken
\* (it is true of every value).
RECURSIVE AddSources(_, _, _, _)
AddSources(acc, sources, available_names, hash_order) ==
    IF sources = <<>> THEN acc
    ELSE LET next == AddWithAliases(acc, Head(sources), available_names, hash_order)
         IN  IF Len(next.ordered) >= 0
             THEN AddSources(next, Tail(sources), available_names, hash_order)
             ELSE next

BuildCandidateList(preferred, default_model, available, hash_order) ==
    LET available_names == DOMAIN available
        first == AddSources([ordered |-> <<>>, seen |-> {}],
                            <<preferred, default_model>> \o DEFAULT_MODEL_ORDER,
                            available_names, hash_order)
        second == IF first.ordered = <<>> /\ available_names # {}
                  THEN AddEach(first, Sorted(available_names), {})
                  ELSE first
        third == IF second.ordered = <<>>
                 THEN AddSources(second, DEFAULT_MODEL_ORDER, {}, hash_order)
                 ELSE second
    IN  third.ordered

(***************************************************************************)
(* HTTP responses as the code sees them.  A call either raises             *)
(* requests.RequestException (kind "RequestException") or yields a         *)
(* response with a status and a body; the body is UNDECODABLE (not JSON,   *)
(* response.json() raises) or a decoded JSON value: an object with the     *)
(* fields the code reads, or an array.                                     *)
(***************************************************************************)
UNDECODABLE == [type |-> "undecodable"]

Transport == [kind |-> "RequestException"]

Http(status, body) == [kind |-> "response", status |-> status, body |-> body]

HTTP_OK == 200

HTTP_NOT_FOUND == 404

HTTP_SERVER_ERROR == 500

HTTP_BAD_REQUEST == 400

HTTP_SERVICE_UNAVAILABLE == 503

HTTP_BAD_GATEWAY == 502

\* requests.Response.ok: no 4xx or 5xx status.
ResponseOk(response) == response.status < HTTP_BAD_REQUEST

JsonArray == [type |-> "array"]

ModelsBody(items) == [type |-> "object", models |-> items]

CandidatesBody(candidates) == [type |-> "object", candidates |-> candidates]

Returned(value) == [tag |-> "return", value |-> value]

Raised(exc, detail) == [tag |-> "raise", exc |-> exc, detail |-> detail]

(***************************************************************************)
(* gemini.py: _call_gemini_raw, from the response on.                      *)
(***************************************************************************)
RECURSIVE AggregateParts(_)
AggregateParts(parts) ==
    IF parts = <<>> THEN <<>>
    ELSE (IF Head(parts).text # None THEN <<Head(parts).text>> ELSE <<>>)
         \o AggregateParts(Tail(parts))

\* The call returning the joined text as it is, blank or not.
CallGeminiRawUntrimmed(model, response) ==
    IF response.kind = "RequestException"
    THEN Raised("GeminiAPIError", <<model, "network">>)
    ELSE IF response.status = HTTP_NOT_FOUND
    THEN Raised("GeminiModelNotFound", <<model, response.status>>)
    ELSE IF ~ResponseOk(response)
    THEN Raised("GeminiAPIError", <<model, response.status>>)
    ELSE IF response.body = UNDECODABLE
    THEN Raised("JSONDecodeError", <<model, "json">>)
    ELSE IF response.body.type # "object"
    THEN Raised("AttributeError", <<model, "get">>)
    ELSE IF response.body.candidates = <<>>
    THEN Raised("GeminiAPIError", <<model, "no candidates">>)
    ELSE LET candidate == response.body.candidates[1]
         IN  Returned([text |-> Concat(AggregateParts(candidate.parts)),
                       finish_reason |-> candidate.finishReason])

\* The call joining the parts of the last candidate, untrimmed, and
\* returning a text that may be empty.
CallGeminiRawLastUntrimmed(model, response) ==
    IF response.kind = "RequestException"
    THEN Raised("GeminiAPIError", <<model, "network">>)
    ELSE IF response.status = HTTP_NOT_FOUND
    THEN Raised("GeminiModelNotFound", <<model, response.status>>)
    ELSE IF ~ResponseOk(response)
    THEN Raised("GeminiAPIError", <<model, response.status>>)
    ELSE IF response.body = UNDECODABLE
    THEN Raised("JSONDecodeError", <<model, "json">>)
    ELSE IF response.body.type # "object"
    THEN Raised("AttributeError", <<model, "get">>)
    ELSE IF response.body.candidates = <<>>
    THEN Raised("GeminiAPIError", <<model, "no candidates">>)
    ELSE LET candidate == response.body.candidates[Len(response.body.candidates)]
         IN  Returned([text |-> Concat(AggregateParts(candidate.parts)),
                       finish_reason |-> candidate.finishReason])

CallGeminiRaw(model, response) ==
    IF response.kind = "RequestException"
    THEN Raised("GeminiAPIError", <<model, "network">>)
    ELSE IF response.status = HTTP_NOT_FOUND
    THEN Raised("GeminiModelNotFound", <<model, response.status>>)
    ELSE IF ~ResponseOk(response)
    THEN Raised("GeminiAPIError", <<model, response.status>>)
    ELSE IF response.body = UNDECODABLE
    THEN Raised("JSONDecodeError", <<model, "json">>)
    ELSE IF response.body.type # "object"
    THEN Raised("AttributeError", <<model, "get">>)
    ELSE IF response.body.candidates = <<>>
    THEN Raised("GeminiAPIError", <<model, "no candidates">>)
    ELSE LET candidate == response.body.candidates[1]
             combined_text == StrStrip(Concat(AggregateParts(candidate.parts)))
         IN  IF combined_text = <<>>
             THEN Raised("GeminiAPIError", <<model, "no text">>)
             ELSE Returned([text |-> combined_text,
                            finish_reason |-> candidate.finishReason])

(***************************************************************************)
(* gemini.py: the body of _available_models for one API version.           *)
(***************************************************************************)
GENERATE_CONTENT == "generateContent"

ShortName(name) == IF Len(name) > 1 THEN Tail(name) ELSE name

\* dict.setdefault replaced by an assignment.
SetAlways(dict, key, value) ==
    [k \in DOMAIN dict \cup {key} |-> IF k = key THEN value ELSE dict[k]]

SetDefault(dict, key, value) ==
    IF key \in DOMAIN dict THEN dict
    ELSE [k \in DOMAIN dict \cup {key} |-> IF k = key THEN value ELSE dict[k]]

\* dict.pop leaving the dict as it was.
PopNothing(dict, key) == dict

Pop(dict, key) == [k \in DOMAIN dict \ {key} |-> dict[k]]

EmptyDict == [k \in {} |-> <<>>]

RECURSIVE RecordItems(_, _, _)
RecordItems(available, items, version) ==
    IF items = <<>> THEN available
    ELSE LET item == Head(items)
         IN  RecordItems(
                 IF GENERATE_CONTENT \notin item.supportedGenerationMethods
                    \/ Falsy(item.name)
                 THEN available
                 ELSE SetDefault(available, ShortName(item.name), version),
                 Tail(items), version)

ListVersion(available, version, response) ==
    IF response.kind = "RequestException" THEN Returned(available)
    ELSE IF ~ResponseOk(response) THEN Returned(available)
    ELSE IF response.body = UNDECODABLE
    THEN Raised("JSONDecodeError", <<version, "json">>)
    ELSE IF response.body.type # "object"
    THEN Raised("AttributeError", <<version, "get">>)
    ELSE Returned(RecordItems(available, response.body.models, version))

(***************************************************************************)
(* functools.lru_cache(maxsize=8) around _available_models.  The cache is  *)
(* a sequence of [key, ref] entries, most recently used first; ref names   *)
(* the cached dict in the heap.                                            *)
(***************************************************************************)
LRU_MAXSIZE == 8

CacheIndex(entries, key) ==
    IF \E i \in 1..Len(entries) : entries[i].key = key
    THEN CHOOSE i \in 1..Len(entries) : entries[i].key = key
    ELSE 0

\* A hit leaving the order of the entries as it was.
CacheTouchNot(entries, i) == entries

\* A hit moves the entry to the front.
CacheTouch(entries, i) ==
    <<entries[i]>> \o SubSeq(entries, 1, i - 1) \o SubSeq(entries, i + 1, Len(entries))

\* After the wrapped call returned: nothing to store when another call has
\* stored the key meanwhile; otherwise the new entry goes to the front, the
\* least recently used one leaving a full cache.
CacheStore(entries, key, ref) ==
    IF CacheIndex(entries, key) # 0 THEN entries
    ELSE IF Len(entries) >= LRU_MAXSIZE
    THEN <<[key |-> key, ref |-> ref]>> \o SubSeq(entries, 1, Len(entries) - 1)
    ELSE <<[key |-> key, ref |-> ref]>> \o entries

(***************************************************************************)
(* Bounds and the inputs drawn in the model.                               *)
(***************************************************************************)
MaxContinuations == 2

Workers == {1, 2}

API_BASE == "https://generativelanguage.googleapis.com"

\* A reply that is complete, and one cut in the middle of a sentence
\* (85 characters, four words on its last line, no closing punctuation).
ShortText == <<"H", "o", "l", "a", "!">>

CutText == Rep(<<"a", "a", "a", "a", " ">>, 16) \o <<"s", "i", " ", "n", "o">>

Part(text) == [text |-> text]

Candidate(parts, finish_reason) == [parts |-> parts, finishReason |-> finish_reason]

Item(name, methods) == [name |-> name, supportedGenerationMethods |-> methods]

Messages == {<<"h", "i">>}

VARIABLES
    settings,    \* get_settings(): the cached Settings of the process
    hashOrder,   \* the iteration order of sets of str in this process
    cache,       \* the lru_cache of _available_models
    heap,        \* the dicts _available_models has returned
    listed,      \* history: each of those dicts as it was returned
    recent,      \* history: the keys stored so far with their dicts, latest use first
    res,         \* per worker thread: the state of its get_gemini_reply call
    started,     \* history: the number of calls of get_gemini_reply so far
    call,        \* the call under study: its arguments, what it received, its result
    db           \* the database: the tables categories, users, posts and post_replies

vars == <<settings, hashOrder, cache, heap, listed, recent, res, started, call, db>>

\* No call is under study.
\* The tables without a row; next_id is the next primary key of categories.
EmptyDb ==
    [categories |-> <<>>, next_id |-> 1, users |-> <<>>, posts |-> <<>>,
     replies |-> <<>>]

NoCall == [fn |-> "None"]

\* None where the code holds an exception, a response or a result.
NoError == [tag |-> "None"]

NoResponse == [kind |-> "None"]

Running == [tag |-> "None"]

\* The locals of get_gemini_reply, and what the call has done so far: hit,
\* rank and memo (whether the catalog came from the cache, the place of the
\* key in recent when it was looked up, the dict last stored for it), lists (the versions listed), tried
\* (the models called), calls (the requests sent to the current model),
\* reasons (the finish reasons it answered with), last (the last
\* generate-content response), only_api_errors (every response so far made
\* _call_gemini_raw raise GeminiAPIError).
Idle ==
    [pc |-> "idle", message |-> <<>>, api_key |-> None, key |-> <<>>,
     versions |-> <<>>, building |-> EmptyDict, available |-> 0,
     available_names |-> {}, models |-> <<>>, index |-> 0, version |-> <<>>,
     attempt |-> 0, chunks |-> <<>>, contents |-> <<>>, last_error |-> NoError,
     hit |-> FALSE, rank |-> 0, memo |-> 0, lists |-> <<>>, tried |-> <<>>, calls |-> <<>>,
     reasons |-> <<>>, last |-> NoResponse, only_api_errors |-> TRUE,
     outcome |-> Running]

\* raise HTTPException(status_code), the cause dropped.
HTTPExceptionNoCause(status_code, cause) ==
    [tag |-> "raise", exc |-> "HTTPException", status |-> status_code,
     cause |-> NoError]

\* raise HTTPException(status_code) from cause
HTTPException(status_code, cause) ==
    [tag |-> "raise", exc |-> "HTTPException", status |-> status_code,
     cause |-> cause]

Finished(rec, outcome) == [rec EXCEPT !.pc = "done", !.outcome = outcome]

\* requests.get(.../{version}/models) is sent.
SendList(rec) ==
    [rec EXCEPT !.pc = "listing", !.lists = Append(@, Head(rec.versions))]

\* requests.post(.../{version}/models/{model}:generateContent) is sent.
SendGenerate(rec) ==
    [rec EXCEPT !.pc = "calling",
                !.calls = Append(@, [model |-> rec.models[rec.index],
                                     version |-> rec.version,
                                     contents |-> rec.contents])]

\* The head of the loop over the candidate models, up to the first call;
\* past the last model, the raise that follows the loop.
\* The head of the loop over the models without chunks = [].
EnterModelKeepingChunks(rec, i, dicts) ==
    IF i > Len(rec.models)
    THEN Finished(rec, HTTPException(HTTP_BAD_GATEWAY, rec.last_error))
    ELSE LET model == rec.models[i]
             available == dicts[rec.available]
             version == IF model \in DOMAIN available /\ available[model] # <<>>
                        THEN available[model]
                        ELSE Head(VersionCandidates(settings.gemini_api_version_hint))
         IN  SendGenerate([rec EXCEPT !.index = i, !.version = version,
                                      !.attempt = 0,
                                      !.contents = InitialContents(rec.message),
                                      !.tried = Append(@, model),
                                      !.calls = <<>>, !.reasons = <<>>])

EnterModel(rec, i, dicts) ==
    IF i > Len(rec.models)
    THEN Finished(rec, HTTPException(HTTP_BAD_GATEWAY, rec.last_error))
    ELSE LET model == rec.models[i]
             available == dicts[rec.available]
             version == IF model \in DOMAIN available /\ available[model] # <<>>
                        THEN available[model]
                        ELSE Head(VersionCandidates(settings.gemini_api_version_hint))
         IN  SendGenerate([rec EXCEPT !.index = i, !.version = version,
                                      !.attempt = 0, !.chunks = <<>>,
                                      !.contents = InitialContents(rec.message),
                                      !.tried = Append(@, model),
                                      !.calls = <<>>, !.reasons = <<>>])

\* From the catalog to the first call, a dict found in the cache taken as it
\* was when discovery returned it.
WithCatalogAsListed(rec, ref, dicts) ==
    LET found == IF ref \in DOMAIN listed THEN listed[ref] ELSE dicts[ref]
        models == BuildCandidateList(settings.gemini_chat_model,
                                     settings.gemini_default_model,
                                     found, hashOrder)
        rec2 == [rec EXCEPT !.available = ref, !.models = models,
                            !.available_names = DOMAIN found]
    IN  IF models = <<>>
        THEN Finished(rec2, HTTPException(HTTP_SERVICE_UNAVAILABLE, NoError))
        ELSE EnterModel(rec2, 1, dicts)

\* From the catalog to the first generate-content call.
WithCatalog(rec, ref, dicts) ==
    LET models == BuildCandidateList(settings.gemini_chat_model,
                                     settings.gemini_default_model,
                                     dicts[ref], hashOrder)
        rec2 == [rec EXCEPT !.available = ref, !.models = models,
                            !.available_names = DOMAIN dicts[ref]]
    IN  IF models = <<>>
        THEN Finished(rec2, HTTPException(HTTP_SERVICE_UNAVAILABLE, NoError))
        ELSE EnterModel(rec2, 1, dicts)

\* The loop over attempts, going on until the limit whatever the answer.
AfterResultNoStop(rec, result) ==
    LET chunks == Append(rec.chunks, result.text)
        accumulated == Concat(chunks)
        rec2 == [rec EXCEPT !.chunks = chunks,
                            !.reasons = Append(@, result.finish_reason),
                            !.only_api_errors = FALSE]
    IN  IF rec.attempt + 1 > settings.gemini_max_auto_continuations
        THEN Finished(rec2, Returned(StrStrip(accumulated)))
        ELSE SendGenerate([rec2 EXCEPT !.attempt = @ + 1,
                                       !.contents = ContinuationContents(
                                                        rec.message, accumulated)])

\* The loop over attempts with its stop test one attempt late.
AfterResultLate(rec, result) ==
    LET chunks == Append(rec.chunks, result.text)
        accumulated == Concat(chunks)
        rec2 == [rec EXCEPT !.chunks = chunks,
                            !.reasons = Append(@, result.finish_reason),
                            !.only_api_errors = FALSE]
    IN  IF ~NeedsContinuation(accumulated, result.finish_reason)
        THEN Finished(rec2, Returned(StrStrip(accumulated)))
        ELSE IF rec.attempt > settings.gemini_max_auto_continuations
        THEN Finished(rec2, Returned(StrStrip(accumulated)))
        ELSE SendGenerate([rec2 EXCEPT !.attempt = @ + 1,
                                       !.contents = ContinuationContents(
                                                        rec.message, accumulated)])

\* The loop over attempts after a call returned: the reply, or the next call.
\* The loop over attempts, raising when the last attempt permitted still
\* calls for a continuation.
AfterResultGiveUp(rec, result) ==
    LET chunks == Append(rec.chunks, result.text)
        accumulated == Concat(chunks)
        rec2 == [rec EXCEPT !.chunks = chunks,
                            !.reasons = Append(@, result.finish_reason),
                            !.only_api_errors = FALSE]
    IN  IF ~NeedsContinuation(accumulated, result.finish_reason)
        THEN Finished(rec2, Returned(StrStrip(accumulated)))
        ELSE IF rec.attempt + 1 > settings.gemini_max_auto_continuations
        THEN Finished(rec2, HTTPException(HTTP_BAD_GATEWAY, NoError))
        ELSE SendGenerate([rec2 EXCEPT !.attempt = @ + 1,
                                       !.contents = ContinuationContents(
                                                        rec.message, accumulated)])

\* The loop over attempts, the model turn of a continuation holding the
\* last chunk only.
AfterResultLastChunk(rec, result) ==
    LET chunks == Append(rec.chunks, result.text)
        accumulated == Concat(chunks)
        rec2 == [rec EXCEPT !.chunks = chunks,
                            !.reasons = Append(@, result.finish_reason),
                            !.only_api_errors = FALSE]
    IN  IF ~NeedsContinuation(accumulated, result.finish_reason)
        THEN Finished(rec2, Returned(StrStrip(accumulated)))
        ELSE IF rec.attempt + 1 > settings.gemini_max_auto_continuations
        THEN Finished(rec2, Returned(StrStrip(accumulated)))
        ELSE SendGenerate([rec2 EXCEPT !.attempt = @ + 1,
                                       !.contents = ContinuationContents(
                                                        rec.message, result.text)])

AfterResult(rec, result) ==
    LET chunks == Append(rec.chunks, result.text)
        accumulated == Concat(chunks)
        rec2 == [rec EXCEPT !.chunks = chunks,
                            !.reasons = Append(@, result.finish_reason),
                            !.only_api_errors = FALSE]
    IN  IF ~NeedsContinuation(accumulated, result.finish_reason)
        THEN Finished(rec2, Returned(StrStrip(accumulated)))
        ELSE IF rec.attempt + 1 > settings.gemini_max_auto_continuations
        THEN Finished(rec2, Returned(StrStrip(accumulated)))
        ELSE SendGenerate([rec2 EXCEPT !.attempt = @ + 1,
                                       !.contents = ContinuationContents(
                                                        rec.message, accumulated)])

\* The history of keys: as the cache, without the limit on its size.
RecentTouch(entries, key) ==
    LET Same(e) == e.key = key
        Other(e) == e.key # key
    IN  SelectSeq(entries, Same) \o SelectSeq(entries, Other)

RecentStore(entries, key, ref) ==
    LET Other(e) == e.key # key
    IN  <<[key |-> key, ref |-> ref]>> \o SelectSeq(entries, Other)

(***************************************************************************)
(* The responses the provider gives in the model, and the settings.        *)
(***************************************************************************)
FlashModels ==
    ModelsBody(<<Item(<<"models", "gemini-2.5-flash">>, {GENERATE_CONTENT}),
                 Item(<<"models", "gemini-2.0-flash">>, {GENERATE_CONTENT}),
                 Item(<<"models", "embedding-001">>, {"embedContent"})>>)

OtherModels ==
    ModelsBody(<<Item(<<"models", "custom-model">>, {GENERATE_CONTENT}),
                 Item(<<"models", "aqa">>, {GENERATE_CONTENT})>>)

ListResponses ==
    { Transport,
      Http(HTTP_SERVER_ERROR, UNDECODABLE),
      Http(HTTP_OK, UNDECODABLE),
      Http(HTTP_OK, JsonArray),
      Http(HTTP_OK, FlashModels),
      Http(HTTP_OK, OtherModels) }

NotFound == Http(HTTP_NOT_FOUND, UNDECODABLE)

ShortStop ==
    Http(HTTP_OK, CandidatesBody(<<Candidate(<<Part(<<" ", "H", "o">>), Part(None),
                                               Part(<<"l", "a", "!", "\n">>)>>, STOP)>>))

CutNoReason == Http(HTTP_OK, CandidatesBody(<<Candidate(<<Part(CutText)>>, None)>>))

MaxTokens ==
    Http(HTTP_OK, CandidatesBody(<<Candidate(<<Part(<<"a", "b", " ">>)>>,
                                             <<" ", "m", "a", "x", "_", "t", "o", "k",
                                               "e", "n", "s">>)>>))

MoreTokens ==
    Http(HTTP_OK, CandidatesBody(<<Candidate(<<Part(<<"c", "d">>)>>, MAX_TOKENS)>>))

GenerateResponses ==
    { Transport,
      NotFound,
      Http(HTTP_SERVER_ERROR, UNDECODABLE),
      Http(HTTP_OK, UNDECODABLE),
      Http(HTTP_OK, CandidatesBody(<<>>)),
      Http(HTTP_OK, CandidatesBody(<<Candidate(<<Part(<<" ">>), Part(None)>>, STOP)>>)),
      ShortStop,
      CutNoReason,
      MaxTokens,
      MoreTokens }

ApiKeys == {<<"key-A">>}

SettingsChoices ==
    [gemini_api_version_hint : {None, <<" ", "v", "1">>},
     gemini_chat_model : {None, M("gemini-1.5-flash")},
     gemini_default_model : {None},
     gemini_max_auto_continuations : 0..MaxContinuations]

(***************************************************************************)
(* The state after import: nothing cached, no request running.             *)
(***************************************************************************)
Init ==
    /\ settings \in SettingsChoices
    /\ hashOrder \in HashOrders
    /\ cache = <<>>
    /\ heap = <<>>
    /\ listed = <<>>
    /\ recent = <<>>
    /\ res = [r \in Workers |-> Idle]
    /\ started = 0
    /\ call = NoCall
    /\ db = EmptyDb

\* get_gemini_reply(system_prompt, message) up to its first request.  api_key
\* is what Settings.gemini_api_key finds in os.environ at this call (the
\* property reads the environment on every access), or None.
Begin(r, message, api_key) ==
    /\ res[r].pc \in {"idle", "done"}
    /\ started' = started + 1
    /\ LET key == <<api_key, API_BASE, settings.gemini_api_version_hint>>
           i == CacheIndex(cache, key)
           rec == [Idle EXCEPT !.message = message, !.api_key = api_key]
           rank == CacheIndex(recent, key)
           rec2 == [rec EXCEPT !.key = key, !.hit = (i # 0), !.rank = rank,
                               !.memo = IF rank = 0 THEN 0 ELSE recent[rank].ref]
       IN  IF Falsy(api_key)
           THEN /\ res' = [res EXCEPT ![r] =
                              Finished(rec, HTTPException(HTTP_SERVICE_UNAVAILABLE,
                                                          NoError))]
                /\ UNCHANGED <<cache, recent>>
           ELSE IF i # 0
           THEN /\ cache' = CacheTouch(cache, i)
                /\ recent' = RecentTouch(recent, key)
                /\ res' = [res EXCEPT ![r] = WithCatalog(rec2, cache[i].ref, heap)]
           ELSE /\ UNCHANGED <<cache, recent>>
                /\ res' = [res EXCEPT ![r] =
                              SendList([rec2 EXCEPT !.versions = VersionCandidates(
                                            settings.gemini_api_version_hint)])]
    /\ UNCHANGED <<settings, hashOrder, heap, listed, db>>

\* _available_models receives the answer to a list-models request.
ListModels(r, response) ==
    /\ res[r].pc = "listing"
    /\ LET rec == res[r]
           step == ListVersion(rec.building, Head(rec.versions), response)
           rest == Tail(rec.versions)
           ref == Len(heap) + 1
       IN  IF step.tag = "raise"
           THEN /\ res' = [res EXCEPT ![r] = Finished(rec, step)]
                /\ UNCHANGED <<cache, heap, listed, recent>>
           ELSE IF rest # <<>>
           THEN /\ res' = [res EXCEPT ![r] =
                              SendList([rec EXCEPT !.building = step.value,
                                                   !.versions = rest])]
                /\ UNCHANGED <<cache, heap, listed, recent>>
           ELSE /\ heap' = Append(heap, step.value)
                /\ listed' = Append(listed, step.value)
                /\ cache' = CacheStore(cache, rec.key, ref)
                /\ recent' = IF CacheIndex(cache, rec.key) # 0 THEN recent
                             ELSE RecentStore(recent, rec.key, ref)
                /\ res' = [res EXCEPT ![r] =
                              WithCatalog([rec EXCEPT !.building = step.value,
                                                      !.versions = rest],
                                          ref, heap')]
    /\ UNCHANGED <<settings, hashOrder, started, db>>

\* get_gemini_reply receives the answer to a generate-content request.
Generate(r, response) ==
    /\ res[r].pc = "calling"
    /\ LET rec == [res[r] EXCEPT !.last = response]
           model == rec.models[rec.index]
           result == CallGeminiRaw(model, response)
           popped == [heap EXCEPT ![rec.available] = Pop(@, model)]
       IN  IF result.tag = "return"
           THEN /\ heap' = heap
                /\ res' = [res EXCEPT ![r] = AfterResult(rec, result.value)]
           ELSE IF result.exc = "GeminiModelNotFound"
           THEN /\ heap' = popped
                /\ res' = [res EXCEPT ![r] =
                              EnterModel([rec EXCEPT !.last_error = result,
                                                     !.only_api_errors = FALSE],
                                         rec.index + 1, popped)]
           ELSE IF result.exc = "GeminiAPIError"
           THEN /\ heap' = heap
                /\ res' = [res EXCEPT ![r] =
                              EnterModel([rec EXCEPT !.last_error = result],
                                         rec.index + 1, heap)]
           ELSE /\ heap' = heap
                /\ res' = [res EXCEPT ![r] =
                              Finished([rec EXCEPT !.only_api_errors = FALSE], result)]
    /\ UNCHANGED <<settings, hashOrder, cache, listed, recent, started, db>>

(***************************************************************************)
(* Spec: one call of get_gemini_reply, with every response of the model.   *)
(***************************************************************************)
FirstCall(r, message, api_key) ==
    /\ started = 0
    /\ Begin(r, message, api_key)
    /\ UNCHANGED call

Next ==
    \/ \E message \in Messages, api_key \in ApiKeys \cup {None} :
           FirstCall(1, message, api_key)
    \/ \E response \in ListResponses : ListModels(1, response) /\ UNCHANGED call
    \/ \E response \in GenerateResponses : Generate(1, response) /\ UNCHANGED call

Spec == Init /\ [][Next]_vars

(***************************************************************************)
(* SpecShared: the worker threads of the process serve requests one after  *)
(* another and side by side, with one key and the default settings.        *)
(***************************************************************************)
MaxShared == 3

DefaultSettings ==
    [gemini_api_version_hint |-> None, gemini_chat_model |-> None,
     gemini_default_model |-> None, gemini_max_auto_continuations |-> 0]

InitShared ==
    /\ settings = DefaultSettings
    /\ hashOrder = SORTED_NAMES
    /\ cache = <<>>
    /\ heap = <<>>
    /\ listed = <<>>
    /\ recent = <<>>
    /\ res = [r \in Workers |-> Idle]
    /\ started = 0
    /\ call = NoCall
    /\ db = EmptyDb

SharedCall(r, message, api_key) ==
    /\ started < MaxShared
    /\ Begin(r, message, api_key)
    /\ UNCHANGED call

NextShared ==
    \/ \E r \in Workers, message \in Messages, api_key \in ApiKeys :
           SharedCall(r, message, api_key)
    \/ \E r \in Workers, response \in {Transport, Http(HTTP_OK, FlashModels)} :
           ListModels(r, response) /\ UNCHANGED call
    \/ \E r \in Workers, response \in {NotFound, ShortStop} :
           Generate(r, response) /\ UNCHANGED call

SpecShared == InitShared /\ [][NextShared]_vars

(***************************************************************************)
(* SpecCache: one worker serves requests under changing keys, one key more *)
(* than the cache holds.  A request uses the first key, the latest one, or *)
(* a key not used before.                                                  *)
(***************************************************************************)
MaxLookups == 11

KeyNames ==
    <<"key-A", "key-B", "key-C", "key-D", "key-E", "key-F", "key-G", "key-H",
      "key-I">>

NumKeys == LRU_MAXSIZE + 1

LookupKeys ==
    { <<KeyNames[i]>> : i \in {n \in {1, Len(recent), Len(recent) + 1} :
                                   n >= 1 /\ n <= NumKeys} }

CacheCall(r, message, api_key) ==
    /\ started < MaxLookups
    /\ Begin(r, message, api_key)
    /\ UNCHANGED call

NoKey == {None, <<"">>}

NextCache ==
    \/ \E message \in Messages, api_key \in LookupKeys \cup NoKey :
           CacheCall(1, message, api_key)
    \/ ListModels(1, Http(HTTP_OK, OtherModels)) /\ UNCHANGED call
    \/ Generate(1, ShortStop) /\ UNCHANGED call

SpecCache == InitShared /\ [][NextCache]_vars

(***************************************************************************)
(* Properties of one call of get_gemini_reply (Spec).                      *)
(***************************************************************************)
W == res[1]

MaxCalls == settings.gemini_max_auto_continuations + 1

IsPrefix(s, t) == Len(s) <= Len(t) /\ SubSeq(t, 1, Len(s)) = s

NoDuplicates(s) == \A i, j \in 1..Len(s) : s[i] = s[j] => i = j

\* The generate-content calls the call may still send, the one in flight
\* not counted.
Budget(rec) == (Len(rec.models) - rec.index) * MaxCalls + (MaxCalls - Len(rec.calls))

Sent(rec) == rec.pc = "calling" \/ rec.tried # <<>>

\* C1: within one resolution a candidate model receives at most
\* maxAutoContinuations + 1 generate-content calls, the models called are
\* the candidates in order, each at most once, and every call sent lowers a
\* budget that starts below len(candidates) * (maxAutoContinuations + 1) and
\* never falls below zero: the resolution sends at most that many calls.
C1_BoundedCalls ==
    /\ [](/\ Len(W.calls) <= MaxCalls
          /\ IsPrefix(W.tried, W.models)
          /\ NoDuplicates(W.models)
          /\ Sent(W) => /\ W.index = Len(W.tried)
                        /\ Budget(W) >= 0
                        /\ Budget(W) < Len(W.models) * MaxCalls)
    /\ [][/\ W'.pc = "calling" /\ Sent(W) => Budget(W') < Budget(W)
          /\ Sent(W) => IsPrefix(W.tried, W'.tried) /\ W'.models = W.models]_vars

\* Every response to a model was judged truncated and the model was called
\* maxAutoContinuations + 1 times, with a model left untried after it.
C1_Witness ==
    /\ W.pc = "done"
    /\ settings.gemini_max_auto_continuations = MaxContinuations
    /\ Len(W.calls) = MaxCalls
    /\ Len(W.reasons) = MaxCalls
    /\ Len(W.models) > Len(W.tried)
    /\ \A i \in 1..Len(W.reasons) : NeedsContinuation(Concat(SubSeq(W.chunks, 1, i)),
                                                      W.reasons[i])

\* The first call to the first candidate was answered with a text.
FirstAnswer(rec) ==
    /\ Len(rec.tried) = 1
    /\ Len(rec.reasons) = 1
    /\ CallGeminiRaw(rec.models[1], rec.last).tag = "return"

\* C2: when the first generate-content call for the first candidate returns
\* a text for which _needs_continuation is false, get_gemini_reply returns
\* that text unchanged, having sent one call and called no other model.
C2_FirstAnswerComplete ==
    FirstAnswer(W) =>
        LET result == CallGeminiRaw(W.models[1], W.last).value
        IN  ~NeedsContinuation(result.text, result.finish_reason) =>
                /\ W.pc = "done"
                /\ W.outcome = Returned(result.text)
                /\ Len(W.calls) = 1
                /\ W.tried = <<W.models[1]>>

\* The first candidate answered Hola! with finish reason STOP, and continuations
\* were allowed.
C2_Witness ==
    /\ W.last = ShortStop
    /\ FirstAnswer(W)
    /\ settings.gemini_max_auto_continuations > 0
    /\ W.outcome = Returned(ShortText)

AllMaxTokens(rec) ==
    /\ rec.reasons # <<>>
    /\ \A i \in 1..Len(rec.reasons) : NormalizeFinishReason(rec.reasons[i]) = MAX_TOKENS

\* C3: every call to a model after the first carries, as its model turn,
\* the concatenation of the chunks received so far; and when every call to
\* the model is answered with finish reason MAX_TOKENS, the model is called
\* maxAutoContinuations + 1 times, no more and no fewer, and the reply is
\* the stripped concatenation of all the chunks in the order received.
C3_MaxTokensContinuation ==
    /\ \A j \in 1..Len(W.calls) :
           /\ W.calls[j].model = W.models[W.index]
           /\ j = 1 => W.calls[j].contents = <<[role |-> "user", text |-> W.message]>>
           /\ j > 1 => /\ Len(W.calls[j].contents) = 3
                       /\ W.calls[j].contents[1] = [role |-> "user", text |-> W.message]
                       /\ W.calls[j].contents[2] =
                              [role |-> "model",
                               text |-> Concat(SubSeq(W.chunks, 1, j - 1))]
    /\ (AllMaxTokens(W) /\ (W.pc = "done" => W.outcome.tag = "return")) =>
           IF Len(W.reasons) = MaxCalls
           THEN /\ W.pc = "done"
                /\ Len(W.calls) = MaxCalls
                /\ Len(W.chunks) = MaxCalls
                /\ W.outcome = Returned(StrStrip(Concat(W.chunks)))
           ELSE /\ W.pc = "calling"
                /\ Len(W.reasons) < MaxCalls
                /\ Len(W.calls) = Len(W.reasons) + 1

\* With the most continuations of the model, all answers MAX_TOKENS, the
\* chunks not all the same.
C3_Witness ==
    /\ AllMaxTokens(W)
    /\ W.pc = "done"
    /\ settings.gemini_max_auto_continuations = MaxContinuations
    /\ Len(W.calls) = MaxContinuations + 1
    /\ W.chunks[1] # W.chunks[2]
    /\ W.outcome = Returned(Concat(W.chunks))

IsNotFound(response) ==
    /\ response # NoResponse
    /\ response.kind # "RequestException"
    /\ response.status = HTTP_NOT_FOUND

\* C4: the step in which a generate-content call is answered with HTTP 404
\* removes the model from the catalog, leaves the candidate list as it was,
\* and goes on to the next model of the list with one first call (or, past
\* the last model, to the 502); and the model being called is never one
\* called earlier in the resolution.
C4_NotFoundMovesOn ==
    /\ [](W.pc = "calling" =>
              /\ W.tried[Len(W.tried)] = W.models[W.index]
              /\ \A i \in 1..(Len(W.tried) - 1) : W.tried[i] # W.models[W.index])
    /\ [][(W.pc = "calling" /\ W' # W /\ IsNotFound(W'.last)) =>
              LET model == W.models[W.index]
              IN  /\ model \notin DOMAIN heap'[W.available]
                  /\ W'.models = W.models
                  /\ W'.available = W.available
                  /\ IF W.index < Len(W.models)
                     THEN /\ W'.pc = "calling"
                          /\ W'.index = W.index + 1
                          /\ W'.tried = Append(W.tried, W.models[W.index + 1])
                          /\ Len(W'.calls) = 1
                          /\ W'.calls[1].model = W.models[W.index + 1]
                          /\ W'.calls[1].contents = InitialContents(W.message)
                     ELSE /\ W'.pc = "done"
                          /\ W'.outcome.exc = "HTTPException"
                          /\ W'.outcome.status = HTTP_BAD_GATEWAY]_vars

\* The first candidate, a model of the catalog, answered 404 and is gone
\* from the catalog; the second candidate is being called.
C4_Witness ==
    /\ W.pc = "calling"
    /\ IsNotFound(W.last)
    /\ Len(W.tried) = 2
    /\ W.tried[1] \in W.available_names
    /\ W.tried[1] \notin DOMAIN heap[W.available]
    /\ W.calls[1].model = W.models[2]

\* C5: as long as every generate-content call has failed with
\* GeminiAPIError, the models called are the candidates in list order, each
\* called once; the call ends only after the last candidate, with
\* HTTPException 502 whose cause is the error of that last candidate.
C5_AllCandidatesFail ==
    (W.only_api_errors /\ Sent(W)) =>
        /\ W.tried = SubSeq(W.models, 1, W.index)
        /\ NoDuplicates(W.tried)
        /\ W.pc \in {"calling", "done"}
        /\ W.pc = "calling" => Len(W.calls) = 1 /\ W.index <= Len(W.models)
        /\ W.pc = "done" =>
               /\ W.tried = W.models
               /\ Len(W.calls) = 1
               /\ W.outcome.exc = "HTTPException"
               /\ W.outcome.status = HTTP_BAD_GATEWAY
               /\ W.outcome.cause = CallGeminiRaw(W.models[Len(W.models)], W.last)
               /\ W.outcome.cause.exc = "GeminiAPIError"

\* All the candidates of a catalog of two models failed, in more than one
\* way.
C5_Witness ==
    /\ W.only_api_errors
    /\ W.pc = "done"
    /\ Len(W.tried) = 2
    /\ W.outcome.status = HTTP_BAD_GATEWAY
    /\ W.last = Transport
    /\ W.last_error.detail = <<W.models[2], "network">>

\* C6: a call that finds no API key ends in the step that starts it, with
\* HTTPException 503, having sent neither a list-models nor a
\* generate-content request, and leaves the cache and the cached dicts as
\* they were.
C6_NoKeyNoCalls ==
    [][(started' # started /\ W'.api_key \in NoKey) =>
           /\ W'.pc = "done"
           /\ W'.outcome = HTTPException(HTTP_SERVICE_UNAVAILABLE, NoError)
           /\ W'.lists = <<>>
           /\ W'.calls = <<>>
           /\ W'.tried = <<>>
           /\ cache' = cache
           /\ heap' = heap
           /\ recent' = recent]_vars

\* A call without a key (None, or the empty text) ended with 503 while the
\* cache held an entry.
C6_Witness ==
    /\ cache # <<>>
    /\ W.pc = "done"
    /\ W.api_key = <<"">>
    /\ W.outcome.exc = "HTTPException"
    /\ W.outcome.status = HTTP_SERVICE_UNAVAILABLE

\* C7 as the specification states it: a generate-content response with
\* status 200 and a body that is not JSON makes the call raise
\* GeminiAPIError, recorded as last_error, and the next candidate (or the
\* 502 after the last one) follows.
C7_UndecodableIsAPIError ==
    (W.last = Http(HTTP_OK, UNDECODABLE)) =>
        /\ W.last_error # NoError
        /\ W.last_error.exc = "GeminiAPIError"
        /\ \/ W.pc = "calling"
           \/ W.outcome.exc = "HTTPException" /\ W.outcome.status = HTTP_BAD_GATEWAY

\* C10 as the specification states it: once a list-models request has been
\* sent, the call goes on to a generate-content request, whatever the
\* answers to the list-models requests: discovery returns and does not
\* raise.
C10_DiscoveryNeverRaises ==
    (W.lists # <<>> /\ W.pc = "done") => W.tried # <<>>

(***************************************************************************)
(* Properties of the catalog shared through the cache (SpecShared) and of  *)
(* the cache under many keys (SpecCache).                                  *)
(***************************************************************************)
Began(r) == started' # started /\ res'[r] # res[r]

CatalogNames ==
    {M("aqa"), M("custom-model"), M("gemini-2.0-flash"), M("gemini-2.5-flash"),
     M("gemini-1.5-pro"), <<"x", "gemini-pro">>}

Catalogs == {[n \in S |-> V1BETA] : S \in SUBSET CatalogNames}

PreferredChoices == {None, <<"">>, M("gemini-1.5-flash"), M("custom-model"), M("gemini-pro")}

DefaultChoices == {None, M("gemini-1.5-flash"), M("aqa")}

InitFunction ==
    /\ settings = DefaultSettings
    /\ hashOrder \in HashOrders
    /\ cache = <<>>
    /\ heap = <<>>
    /\ listed = <<>>
    /\ recent = <<>>
    /\ res = [r \in Workers |-> Idle]
    /\ started = 0
    /\ db = EmptyDb

InitCandidates ==
    /\ InitFunction
    /\ call \in [fn : {"_build_candidate_list"}, preferred : PreferredChoices,
                 default_model : DefaultChoices, available : Catalogs,
                 result : {Running}]

BuildList ==
    /\ call.fn = "_build_candidate_list"
    /\ call.result = Running
    /\ call' = [call EXCEPT !.result =
                   Returned(BuildCandidateList(call.preferred, call.default_model,
                                               call.available, hashOrder))]
    /\ UNCHANGED <<settings, hashOrder, cache, heap, listed, recent, res, started, db>>

NextCandidates == BuildList

SpecCandidates == InitCandidates /\ [][NextCandidates]_vars

\* The sources of the list in their order, and the names they expand to.
Sources == <<call.preferred, call.default_model>> \o DEFAULT_MODEL_ORDER

Expansions ==
    Concat([i \in 1..Len(Sources) |-> ExpandAliases(Sources[i], hashOrder)])

FirstSeen(stream, name) ==
    CHOOSE i \in 1..Len(stream) :
        stream[i] = name /\ \A j \in 1..(i - 1) : stream[j] # name

Usable(name) == call.available = EmptyDict \/ name \in DOMAIN call.available

\* C11: the list _build_candidate_list returns holds no name twice; the
\* names of it that a source expands to stand in the order in which the
\* sources preferred, default and built-in order first reach them, every
\* such name the catalog allows being in the list; and the expansion of a
\* source starts with the source.
C11_NoDuplicatesFirstSeen ==
    call.result.tag = "return" =>
        LET list == call.result.value
            stream == Expansions
            reached == Range(stream)
            place == [name \in reached |-> FirstSeen(stream, name)]
        IN  /\ NoDuplicates(list)
            /\ \A i, j \in 1..Len(list) :
                   (i < j /\ list[i] \in reached /\ list[j] \in reached)
                       => place[list[i]] < place[list[j]]
            /\ \A name \in reached : Usable(name) => name \in Range(list)
            /\ \A i \in 1..Len(Sources) :
                   ~Falsy(Sources[i]) => ExpandAliases(Sources[i], hashOrder)[1] = Sources[i]

\* No catalog: the preferred model and its three aliases, the default model,
\* then the built-in order without the names already taken.
C11_Witness ==
    /\ call.fn = "_build_candidate_list"
    /\ call.result.tag = "return"
    /\ call.available = EmptyDict
    /\ call.preferred = M("gemini-1.5-flash")
    /\ call.default_model = M("aqa")
    /\ Len(call.result.value) = 17
    /\ call.result.value[1] = M("gemini-1.5-flash")
    /\ call.result.value[5] = M("aqa")
    /\ call.result.value[6] = M("gemini-2.5-flash-lite")

\* C20: when the catalog is not empty and holds none of the names the
\* sources expand to, the list is the names of the catalog, each once, in
\* ascending order of the names as strings.
C20_SortedCatalogFallback ==
    (/\ call.result.tag = "return"
     /\ call.available # EmptyDict
     /\ Range(Expansions) \cap DOMAIN call.available = {}) =>
        LET list == call.result.value
            place == [name \in Range(SORTED_NAMES) |-> FirstSeen(SORTED_NAMES, name)]
        IN  /\ Range(list) = DOMAIN call.available
            /\ Len(list) = Cardinality(DOMAIN call.available)
            /\ \A i, j \in 1..Len(list) : i < j => place[list[i]] < place[list[j]]

\* A catalog of three names foreign to the alias table, a preferred model
\* that is not in it.
C20_Witness ==
    /\ call.fn = "_build_candidate_list"
    /\ call.preferred = M("gemini-pro")
    /\ call.available = [n \in {M("custom-model"), <<"x", "gemini-pro">>, M("aqa")} |-> V1BETA]
    /\ call.result = Returned(<<M("aqa"), M("custom-model"), <<"x", "gemini-pro">>>>)

(***************************************************************************)
(* SpecAliases: _expand_aliases applied to two names.                      *)
(***************************************************************************)
AliasNames == Range(SORTED_NAMES) \cup {None, <<"">>}

InitAliases ==
    /\ InitFunction
    /\ call \in [fn : {"_expand_aliases"}, a : AliasNames, b : AliasNames,
                 result : {Running}]

Expand ==
    /\ call.fn = "_expand_aliases"
    /\ call.result = Running
    /\ call' = [call EXCEPT !.result =
                   Returned([a |-> ExpandAliases(call.a, hashOrder),
                             b |-> ExpandAliases(call.b, hashOrder)])]
    /\ UNCHANGED <<settings, hashOrder, cache, heap, listed, recent, res, started, db>>

NextAliases == Expand

SpecAliases == InitAliases /\ [][NextAliases]_vars

\* C12: for two names a and b, b is in the expansion of a exactly when a is
\* in the expansion of b, both being there when (a, b) is a pair of the
\* alias table; an expansion holds no name twice and starts with the name
\* expanded.
C12_ExpansionSymmetric ==
    call.result.tag = "return" =>
        LET of_a == call.result.value.a
            of_b == call.result.value.b
        IN  /\ (call.b \in Range(of_a)) <=> (call.a \in Range(of_b))
            /\ <<call.a, call.b>> \in ALIAS_PAIRS =>
                   call.b \in Range(of_a) /\ call.a \in Range(of_b)
            /\ NoDuplicates(of_a)
            /\ ~Falsy(call.a) => of_a[1] = call.a

\* Two names that no pair of the table joins, each in the expansion of
\* the other through the names between them.
C12_Witness ==
    /\ call.fn = "_expand_aliases"
    /\ call.result.tag = "return"
    /\ call.a = M("gemini-pro")
    /\ call.b = M("gemini-2.5-pro")
    /\ call.a \in Range(call.result.value.b)
    /\ call.b \in Range(call.result.value.a)
    /\ Len(call.result.value.a) = 7

(***************************************************************************)
(* SpecHeuristic: _needs_continuation applied to a text and a finish       *)
(* reason.  Body is a text of 80 characters, sixteen words in one line.    *)
(***************************************************************************)
Body == Rep(<<"a", "a", "a", "a", " ">>, 16)

Words == <<"u", "n", "o", " ", "d", "o", "s", " ", "t", "r", "e", "s">>

HeuristicTexts ==
    << <<>>,
       ShortText,
       Words \o <<" ", "y", " ", "m", "a", "s">>,
       Rep(<<" ">>, 90) \o ShortText \o <<"\n">>,
       CutText,
       Body \o <<"f", "i", "n", ".">>,
       <<"*", "*">> \o Body \o <<"f", "i", "n", ".">>,
       <<"*", "*">> \o Body \o <<"*", "*", " ", "f", "i", "n", "?">>,
       <<BACKTICK>> \o Body \o <<"f", "i", "n", "!">>,
       Body \o <<"\n", "-", " ">> \o Words \o <<".">>,
       Body \o <<"\n", "1", "2", ".", " ">> \o Words \o <<"?">>,
       Body \o <<"\n", "-", " ", "\n">> \o Words \o <<".">>,
       Body \o <<"\n", "-">> \o Words \o <<".">>,
       Body \o Words \o <<":">>,
       Body \o <<"\n", "\n", "f", "i", "n", ".", " ", "\n">> >>

FinishReasons ==
    << None, <<>>, <<" ", " ">>, STOP, <<"s", "t", "o", "p">>, MAX_TOKENS,
       <<" ", "m", "a", "x", "_", "t", "o", "k", "e", "n", "s", "\n">>,
       <<"M", "a", "x", "_", "T", "o", "k", "e", "n", "s">>,
       <<"S", "A", "F", "E", "T", "Y">> >>

InitHeuristic ==
    /\ InitFunction
    /\ call \in [fn : {"_needs_continuation"}, text : Range(HeuristicTexts),
                 finish_reason : Range(FinishReasons), result : {Running}]

Judge ==
    /\ call.fn = "_needs_continuation"
    /\ call.result = Running
    /\ call' = [call EXCEPT !.result =
                   Returned(NeedsContinuation(call.text, call.finish_reason))]
    /\ UNCHANGED <<settings, hashOrder, cache, heap, listed, recent, res, started, db>>

NextHeuristic == Judge

SpecHeuristic == InitHeuristic /\ [][NextHeuristic]_vars

\* The finish reason is MAX_TOKENS once stripped and put in upper case.
IsMaxTokens(finish_reason) ==
    finish_reason # None /\ StrUpper(StrStrip(finish_reason)) = MAX_TOKENS

Judged == call.fn = "_needs_continuation" /\ call.result.tag = "return"

\* C13: _needs_continuation is true of every text, the empty and the short
\* ones too, when the finish reason stripped and upper-cased is MAX_TOKENS.
C13_MaxTokensAlwaysContinues ==
    (Judged /\ IsMaxTokens(call.finish_reason)) => call.result.value = TRUE

\* The empty text with the finish reason " max_tokens" and a line break.
C13_Witness ==
    /\ Judged
    /\ call.text = <<>>
    /\ call.finish_reason = FinishReasons[7]
    /\ call.result.value = TRUE

\* C14 as the specification states it: _needs_continuation is false of a
\* text shorter than 80 characters once stripped, whatever the finish
\* reason.
C14_ShortNeverContinues ==
    (Judged /\ Len(StrStrip(call.text)) < ShortReplyLen) => call.result.value = FALSE

\* C14, amended: _needs_continuation is false of a text shorter than 80
\* characters once stripped, for every finish reason that is not
\* MAX_TOKENS once stripped and upper-cased.
C14_ShortNeverContinuesUnlessMaxTokens ==
    (/\ Judged
     /\ Len(StrStrip(call.text)) < ShortReplyLen
     /\ ~IsMaxTokens(call.finish_reason)) => call.result.value = FALSE

\* A short text of six words without closing punctuation, finish reason
\* STOP.
C14_Witness ==
    /\ Judged
    /\ call.result.value = FALSE
    /\ call.finish_reason = STOP
    /\ call.text = HeuristicTexts[3]

\* C15 as the specification states it: with the finish reason STOP,
\* _needs_continuation is false of every text of 80 characters or more whose
\* last line ends with a full stop, an exclamation or a question mark.
C15_ClosedSentenceNeverContinues ==
    (/\ Judged
     /\ call.finish_reason = STOP
     /\ Len(StrStrip(call.text)) >= ShortReplyLen
     /\ RStrip(call.text)[Len(RStrip(call.text))] \in {".", "!", "?"})
        => call.result.value = FALSE

(***************************************************************************)
(* SpecEntry: get_gemini_reply as its callers call it.  A call gives a     *)
(* number of positional arguments and a set of keyword arguments, which    *)
(* Python binds to the parameters before the body runs.                    *)
(***************************************************************************)
Parameters == <<"system_prompt", "message">>

Positional == {Len(Parameters), Len(Parameters) + 1}

Keywords == {{}, {"history"}}

\* The binding of a function that takes any keyword.
BindArgumentsLenient(positional, keywords) ==
    IF positional > Len(Parameters)
    THEN Raised("TypeError", <<"positional arguments", positional>>)
    ELSE Returned(Parameters)

BindArguments(positional, keywords) ==
    IF positional > Len(Parameters)
    THEN Raised("TypeError", <<"positional arguments", positional>>)
    ELSE IF keywords \ Range(Parameters) # {}
    THEN Raised("TypeError", <<"unexpected keyword argument", keywords>>)
    ELSE IF positional + Cardinality(keywords) # Len(Parameters)
    THEN Raised("TypeError", <<"missing or repeated argument", keywords>>)
    ELSE Returned(Parameters)

Invoke(r, positional, keywords, message, api_key) ==
    /\ started = 0
    /\ call' = [fn |-> "get_gemini_reply", positional |-> positional,
                keywords |-> keywords]
    /\ LET bound == BindArguments(positional, keywords)
       IN  IF bound.tag = "raise"
           THEN /\ res' = [res EXCEPT ![r] =
                              Finished([Idle EXCEPT !.message = message], bound)]
                /\ started' = started + 1
                /\ UNCHANGED <<settings, hashOrder, cache, heap, listed, recent, db>>
           ELSE Begin(r, message, api_key)

NextEntry ==
    \/ \E positional \in Positional, keywords \in Keywords,
          message \in Messages, api_key \in ApiKeys \cup {None} :
           Invoke(1, positional, keywords, message, api_key)
    \/ \E response \in {Transport, Http(HTTP_OK, FlashModels)} :
           ListModels(1, response) /\ UNCHANGED call
    \/ \E response \in {Transport, NotFound, ShortStop, CutNoReason} :
           Generate(1, response) /\ UNCHANGED call

SpecEntry == Init /\ [][NextEntry]_vars

\* C16 as the specification states it: a call that gives a history, as a
\* third positional argument or by keyword, ends with a reply or with
\* HTTPException 503 or 502, and with nothing else.
C16_HistoryAccepted ==
    (/\ call.fn = "get_gemini_reply"
     /\ call.positional > Len(Parameters) \/ "history" \in call.keywords
     /\ W.pc = "done") =>
        \/ W.outcome.tag = "return"
        \/ /\ W.outcome.exc = "HTTPException"
           /\ W.outcome.status \in {HTTP_SERVICE_UNAVAILABLE, HTTP_BAD_GATEWAY}

(***************************************************************************)
(* SpecDiscovery: the first call of the process under a version hint, up   *)
(* to the end of _available_models; call.answers keeps the answers to the  *)
(* list-models requests, in the order of W.lists.                          *)
(***************************************************************************)
HintChoices ==
    {None, <<" ", " ">>, <<" ", "v", "1">>, V1BETA, <<"v", "2">>}

DeepModels ==
    ModelsBody(<<Item(<<"publishers", "google", "models", "gemini-pro">>,
                      {GENERATE_CONTENT, "countTokens"}),
                 Item(None, {GENERATE_CONTENT}),
                 Item(M("gemini-2.5-flash"), {GENERATE_CONTENT})>>)

DiscoveryResponses ==
    { Transport,
      Http(HTTP_SERVER_ERROR, UNDECODABLE),
      Http(HTTP_OK, UNDECODABLE),
      Http(HTTP_OK, FlashModels),
      Http(HTTP_OK, DeepModels) }

InitDiscovery ==
    /\ settings \in [gemini_api_version_hint : HintChoices,
                     gemini_chat_model : {None}, gemini_default_model : {None},
                     gemini_max_auto_continuations : {0}]
    /\ hashOrder = SORTED_NAMES
    /\ cache = <<>>
    /\ heap = <<>>
    /\ listed = <<>>
    /\ recent = <<>>
    /\ res = [r \in Workers |-> Idle]
    /\ started = 0
    /\ call = [fn |-> "_available_models", answers |-> <<>>]
    /\ db = EmptyDb

Answer(r, response) ==
    /\ ListModels(r, response)
    /\ call' = [call EXCEPT !.answers = Append(@, response)]

NextDiscovery ==
    \/ \E message \in Messages, api_key \in ApiKeys : FirstCall(1, message, api_key)
    \/ \E response \in DiscoveryResponses : Answer(1, response)

SpecDiscovery == InitDiscovery /\ [][NextDiscovery]_vars

\* The versions to query under the hint of the settings: the hint stripped,
\* unless empty, then v1beta and v1 where they are not the hint.
HintFirst ==
    LET hint == settings.gemini_api_version_hint
        given == IF hint = None \/ StrStrip(hint) = <<>> THEN <<>>
                 ELSE <<StrStrip(hint)>>
    IN  given \o SelectSeq(<<V1BETA, V1>>, LAMBDA v : <<v>> # given)

\* The answer lists the model under the short name, with generateContent.
Reports(response, short_name) ==
    /\ response.kind # "RequestException"
    /\ ResponseOk(response)
    /\ response.body.type = "object"
    /\ \E i \in 1..Len(response.body.models) :
           LET item == response.body.models[i]
           IN  /\ GENERATE_CONTENT \in item.supportedGenerationMethods
               /\ ~Falsy(item.name)
               /\ ShortName(item.name) = short_name

Discovered == call.fn = "_available_models" /\ W.available # 0

\* C17: the list-models requests go to the hint first, then v1beta, then
\* v1, no version twice; and the catalog returned maps every model an
\* answer listed with generateContent, and no other, to the version of the
\* first answer that listed it so.
C17_VersionOrderFirstWins ==
    call.fn = "_available_models" =>
        /\ IsPrefix(W.lists, HintFirst)
        /\ NoDuplicates(HintFirst)
        /\ Len(call.answers) <= Len(W.lists)
        /\ Discovered =>
               LET catalog == listed[W.available]
                   first(name) == CHOOSE i \in 1..Len(call.answers) :
                                      /\ Reports(call.answers[i], name)
                                      /\ \A j \in 1..(i - 1) : ~Reports(call.answers[j], name)
               IN  /\ W.lists = HintFirst
                   /\ Len(call.answers) = Len(W.lists)
                   /\ \A name \in DOMAIN catalog :
                          /\ \E i \in 1..Len(call.answers) : Reports(call.answers[i], name)
                          /\ catalog[name] = W.lists[first(name)]
                   /\ \A i \in 1..Len(call.answers) :
                          \A name \in {M("gemini-2.5-flash"), M("gemini-2.0-flash"),
                                       <<"google", "models", "gemini-pro">>} :
                              Reports(call.answers[i], name) => name \in DOMAIN catalog

\* Under the hint " v1" the requests went to v1 and then to v1beta; both
\* answers listed gemini-2.5-flash, which stays under v1, and the model only
\* the second answer listed is under v1beta.
C17_Witness ==
    /\ Discovered
    /\ settings.gemini_api_version_hint = <<" ", "v", "1">>
    /\ W.lists = <<V1, V1BETA>>
    /\ call.answers = <<Http(HTTP_OK, FlashModels), Http(HTTP_OK, DeepModels)>>
    /\ listed[W.available][M("gemini-2.5-flash")] = V1
    /\ listed[W.available][M("gemini-2.0-flash")] = V1
    /\ listed[W.available][<<"google", "models", "gemini-pro">>] = V1BETA

\* C18 as the specification states it: every key of the catalog is the part
\* after the last '/' of a name an answer listed with generateContent, so
\* that no key contains a '/'.
C18_ShortNameAfterLastSlash ==
    Discovered =>
        \A key \in DOMAIN listed[W.available] :
            /\ Len(key) = 1
            /\ \E i \in 1..Len(call.answers) :
                   /\ call.answers[i].kind # "RequestException"
                   /\ ResponseOk(call.answers[i])
                   /\ call.answers[i].body.type = "object"
                   /\ \E k \in 1..Len(call.answers[i].body.models) :
                          LET item == call.answers[i].body.models[k]
                          IN  /\ GENERATE_CONTENT \in item.supportedGenerationMethods
                              /\ ~Falsy(item.name)
                              /\ key = <<item.name[Len(item.name)]>>
\* C19 as the specification states it: when the catalog a resolution found
\* was not empty, every candidate is a key of it, and every generate-content
\* call goes to the version the catalog recorded for the model called.
C19_CallsUnderRecordedVersion ==
    \A r \in Workers :
        (res[r].available # 0 /\ res[r].available_names # {}) =>
            /\ Range(res[r].models) \subseteq res[r].available_names
            /\ res[r].available_names \subseteq DOMAIN listed[res[r].available]
            /\ res[r].pc = "calling" =>
                   res[r].version = listed[res[r].available][res[r].models[res[r].index]]

(***************************************************************************)
(* SpecLoop: one call of get_gemini_reply under the default models, with   *)
(* answers of every finish reason, to follow the loop over the attempts    *)
(* and the models.  call.answers keeps the answers to the generate-content *)
(* calls of the resolution, in the order received.                         *)
(***************************************************************************)
OkText(text, finish_reason) ==
    Http(HTTP_OK, CandidatesBody(<<Candidate(<<Part(text)>>, finish_reason)>>))

LoopResponses ==
    { NotFound, Http(HTTP_SERVER_ERROR, UNDECODABLE), ShortStop, CutNoReason,
      MaxTokens, MoreTokens,
      OkText(CutText, STOP),
      OkText(CutText, <<"S", "A", "F", "E", "T", "Y">>),
      OkText(CutText \o <<"\n">>, <<" ", "o", "t", "h", "e", "r", " ">>),
      OkText(<<"*", "*", "n", "o">>, <<"S", "A", "F", "E", "T", "Y">>) }

InitLoop ==
    /\ settings \in [gemini_api_version_hint : {None},
                     gemini_chat_model : {None}, gemini_default_model : {None},
                     gemini_max_auto_continuations : 0..MaxContinuations]
    /\ hashOrder = SORTED_NAMES
    /\ cache = <<>>
    /\ heap = <<>>
    /\ listed = <<>>
    /\ recent = <<>>
    /\ res = [r \in Workers |-> Idle]
    /\ started = 0
    /\ call = [fn |-> "get_gemini_reply", answers |-> <<>>]
    /\ db = EmptyDb

NextLoop ==
    \/ \E message \in Messages, api_key \in ApiKeys : FirstCall(1, message, api_key)
    \/ \E response \in {Http(HTTP_OK, FlashModels)} :
           ListModels(1, response) /\ UNCHANGED call
    \/ \E response \in LoopResponses :
           /\ Generate(1, response)
           /\ call' = [call EXCEPT !.answers = Append(@, response)]

SpecLoop == InitLoop /\ [][NextLoop]_vars

\* The finish reason is given, not blank, and neither STOP nor MAX_TOKENS
\* whatever its case.
IsOtherReason(finish_reason) ==
    /\ finish_reason # None
    /\ StrStrip(finish_reason) # <<>>
    /\ StrUpper(StrStrip(finish_reason)) \notin {STOP, MAX_TOKENS}

\* C21: once a call answered with a finish reason that is given, not blank
\* and neither STOP nor MAX_TOKENS, the resolver has returned the text
\* accumulated for the model, whatever the text, and sent no further call.
C21_OtherReasonIsTerminal ==
    (W.reasons # <<>> /\ IsOtherReason(W.reasons[Len(W.reasons)])) =>
        /\ W.pc = "done"
        /\ W.outcome = Returned(Concat(W.chunks))
        /\ Len(W.calls) = Len(W.chunks)
        /\ \A i \in 1..(Len(W.reasons) - 1) : ~IsOtherReason(W.reasons[i])

\* With continuations left, a text cut in the middle of a sentence, sent
\* after a first chunk and with the finish reason " other ", was returned.
C21_Witness ==
    /\ settings.gemini_max_auto_continuations = MaxContinuations
    /\ W.reasons = <<MaxTokens.body.candidates[1].finishReason,
                     <<" ", "o", "t", "h", "e", "r", " ">> >>
    /\ W.outcome = Returned(<<"a", "b">> \o CutText)
    /\ LooksLikeTruncatedMarkdown(Concat(W.chunks))

\* C22: every generate-content request carries one turn, the user's with
\* the message, when it is the first to its model, and otherwise three: the
\* user's with the message, the model's with all the text received from
\* that model so far, the user's with the continuation instruction.
C22_OneOrThreeTurns ==
    \A i \in 1..Len(W.calls) :
        LET contents == W.calls[i].contents
        IN  /\ Len(contents) \in {1, 3}
            /\ contents[1] = [role |-> "user", text |-> W.message]
            /\ (Len(contents) = 1) = (i = 1)
            /\ i > 1 =>
                   /\ i - 1 <= Len(W.chunks)
                   /\ contents[2] = [role |-> "model",
                                     text |-> Concat(SubSeq(W.chunks, 1, i - 1))]
                   /\ contents[3] = [role |-> "user", text |-> CONTINUATION_PROMPT]

\* The second continuation request to the second model, after the first
\* was not found: its model turn holds the two chunks received.
C22_Witness ==
    /\ W.pc = "calling"
    /\ W.index = 2
    /\ Len(W.calls) = MaxContinuations + 1
    /\ W.chunks = <<<<"a", "b">>, <<"c", "d">>>>
    /\ W.calls[3].contents[2].text = <<"a", "b", "c", "d">>

\* The call with attempt = gemini_max_auto_continuations was answered and
\* the text accumulated still calls for a continuation.
LastAttemptCut ==
    /\ Len(W.chunks) = settings.gemini_max_auto_continuations + 1
    /\ Len(W.reasons) = Len(W.chunks)
    /\ NeedsContinuation(Concat(W.chunks), W.reasons[Len(W.reasons)])

\* C23: when the answer to the call with attempt = the continuation limit
\* still calls for a continuation, the resolver has returned the text
\* accumulated, without raising, without another call to the model and
\* without going to the next model.
C23_LastAttemptReturnsPartial ==
    LastAttemptCut =>
        /\ W.pc = "done"
        /\ W.outcome = Returned(StrStrip(Concat(W.chunks)))
        /\ Len(W.calls) = Len(W.chunks)
        /\ W.tried[Len(W.tried)] = W.models[W.index]
        /\ \A i \in 1..Len(W.calls) : W.calls[i].model = W.models[W.index]

\* Limit 1: the first answer had no finish reason, the second STOP, both
\* cut in the middle of a sentence; the first model, with one to follow.
C23_Witness ==
    /\ LastAttemptCut
    /\ settings.gemini_max_auto_continuations = 1
    /\ W.reasons = <<None, STOP>>
    /\ W.index = 1
    /\ Len(W.models) > 1
    /\ W.outcome = Returned(CutText \o CutText)

(***************************************************************************)
(* SpecCall: _call_gemini_raw alone, on answers with none, one or two      *)
(* candidates, of up to two parts each, with and without text.             *)
(***************************************************************************)
CallResponses ==
    LET fragments == {None, <<" ", "H", "o">>, <<"l", "a", "!", "\n">>, <<" ">>}
        part_lists == {<<>>} \cup {<<Part(a)>> : a \in fragments}
                             \cup {<<Part(a), Part(b)>> : a \in fragments, b \in fragments}
        candidates == {Candidate(parts, reason) :
                          parts \in part_lists,
                          reason \in {None, STOP, <<" ", "m", "a", "x", "_", "t", "o",
                                                    "k", "e", "n", "s">>}}
    IN  {Transport, NotFound, Http(HTTP_SERVER_ERROR, UNDECODABLE),
         Http(HTTP_OK, UNDECODABLE), Http(HTTP_OK, JsonArray),
         Http(HTTP_OK, CandidatesBody(<<>>))}
        \cup {Http(HTTP_OK, CandidatesBody(<<c>>)) : c \in candidates}
        \cup {Http(HTTP_OK, CandidatesBody(<<c, Candidate(<<Part(<<"n", "o">>)>>, STOP)>>)) :
                 c \in candidates}

InitCall ==
    /\ InitFunction
    /\ call \in [fn : {"_call_gemini_raw"}, model : {M("gemini-2.5-flash")},
                 response : CallResponses, result : {Running}]

CallOnce ==
    /\ call.fn = "_call_gemini_raw"
    /\ call.result = Running
    /\ call' = [call EXCEPT !.result = CallGeminiRaw(call.model, call.response)]
    /\ UNCHANGED <<settings, hashOrder, cache, heap, listed, recent, res, started, db>>

NextCall == CallOnce

SpecCall == InitCall /\ [][NextCall]_vars

\* The call is over, and its answer had a success status and a JSON object
\* for body.
AnsweredObject ==
    /\ call.fn = "_call_gemini_raw"
    /\ call.result # Running
    /\ call.response.kind = "response"
    /\ call.response.status = HTTP_OK
    /\ call.response.body # UNDECODABLE
    /\ call.response.body.type = "object"

\* C24: on an answer with a success status and a decoded body, the call
\* returns the text fragments of the parts of the first candidate, joined in
\* their order with nothing between them and stripped, with the finish
\* reason of that candidate as it came; and with no candidate, or with that
\* text empty, it raises GeminiAPIError.
C24_FirstCandidateJoinedTrimmed ==
    AnsweredObject =>
        LET candidates == call.response.body.candidates
            fragments == AggregateParts(candidates[1].parts)
            joined == IF Len(fragments) = 0 THEN <<>>
                      ELSE IF Len(fragments) = 1 THEN fragments[1]
                      ELSE fragments[1] \o fragments[2]
        IN  IF candidates = <<>> \/ StrStrip(joined) = <<>>
            THEN /\ call.result.tag = "raise"
                 /\ call.result.exc = "GeminiAPIError"
            ELSE /\ call.result.tag = "return"
                 /\ call.result.value.text = StrStrip(joined)
                 /\ call.result.value.finish_reason = candidates[1].finishReason

\* Two candidates; the first has the parts " Ho" and "la!" with a line break
\* after it and the finish reason " max_tokens".
C24_Witness ==
    /\ AnsweredObject
    /\ Len(call.response.body.candidates) = 2
    /\ call.response.body.candidates[1].parts =
           <<Part(<<" ", "H", "o">>), Part(<<"l", "a", "!", "\n">>)>>
    /\ call.result = Returned([text |-> ShortText,
                               finish_reason |-> <<" ", "m", "a", "x", "_", "t", "o",
                                                   "k", "e", "n", "s">>])

\* C25: the list _build_candidate_list returns is not empty, whatever the
\* preferred model, the default model and the catalog, the empty catalog
\* too; and it is never the last loop, over the built-in order without the
\* catalog, that fills it: the loop over the sources has added a name, or
\* the catalog has a name for the loop over the sorted catalog to add.
C25_ListNeverEmpty ==
    (call.fn = "_build_candidate_list" /\ call.result.tag = "return") =>
        LET available_names == DOMAIN call.available
            first == AddSources([ordered |-> <<>>, seen |-> {}], Sources,
                                available_names, hashOrder)
        IN  /\ call.result.value # <<>>
            /\ first.ordered # <<>> \/ available_names # {}
            /\ available_names = {} => call.result.value = first.ordered

\* The empty catalog, no preferred and no default model: the list is the
\* built-in order with the aliases, which the first loop gave.
C25_Witness ==
    /\ call.fn = "_build_candidate_list"
    /\ call.result.tag = "return"
    /\ call.available = EmptyDict
    /\ call.preferred = None
    /\ call.default_model = None
    /\ Len(call.result.value) = 16
    /\ call.result.value[1] = M("gemini-2.5-flash")

\* C26: a reply get_gemini_reply returns is not empty, neither starts nor
\* ends with whitespace, and is the chunks received joined, one chunk for
\* each call, all the calls to one model; so that the reply stripped, which
\* the chat endpoint tests before it answers with its apology, is not empty.
C26_ReplyNonEmptyTrimmed ==
    (W.pc = "done" /\ W.outcome.tag = "return") =>
        LET reply == W.outcome.value
        IN  /\ reply # <<>>
            /\ reply[1] \notin WS
            /\ reply[Len(reply)] \notin WS
            /\ reply = Concat(W.chunks)
            /\ Len(W.chunks) = Len(W.calls)
            /\ \A i \in 1..Len(W.calls) : W.calls[i].model = W.models[W.index]
            /\ StrStrip(reply) # <<>>

\* A first chunk with the finish reason " max_tokens", then a chunk that
\* came in two parts with a blank before and a line break after.
C26_Witness ==
    /\ W.pc = "done"
    /\ W.last = ShortStop
    /\ W.chunks = <<<<"a", "b">>, ShortText>>
    /\ W.outcome = Returned(<<"a", "b">> \o ShortText)

\* The place of the last answer of the resolution that made its call fail,
\* 0 when none did.
LastFailure ==
    LET failed == {i \in 1..Len(call.answers) :
                      CallGeminiRaw(None, call.answers[i]).tag = "raise"}
    IN  IF failed = {} THEN 0 ELSE CHOOSE i \in failed : \A j \in failed : j <= i

\* C27: the chunks the resolver holds are the texts of the answers received
\* since the last failed call, those received before it being dropped; the
\* first call to a model carries the user turn alone; and a reply returned
\* is those texts joined, all of them from the model that completed.
C27_FailedCandidateDiscarded ==
    (call.fn = "get_gemini_reply" /\ W.pc \in {"calling", "done"} /\ W.available # 0) =>
        LET since == SubSeq(call.answers, LastFailure + 1, Len(call.answers))
            texts == [i \in 1..Len(since) |->
                         CallGeminiRaw(None, since[i]).value.text]
        IN  /\ (W.pc = "calling" \/ W.outcome.tag = "return") =>
                   /\ W.chunks = texts
                   /\ W.calls[1].contents = <<[role |-> "user", text |-> W.message]>>
                   /\ Len(W.tried) = W.index
            /\ (W.pc = "calling" /\ LastFailure = Len(call.answers)) =>
                   /\ W.chunks = <<>>
                   /\ Len(W.calls) = 1
            /\ (W.pc = "done" /\ W.outcome.tag = "return") =>
                   W.outcome.value = Concat(texts)

\* The first model answered "ab" and then, to the continuation call, 404;
\* the second model answered "cd" and then "Hola!": the reply has no "ab".
C27_Witness ==
    /\ call.fn = "get_gemini_reply"
    /\ call.answers = <<MaxTokens, NotFound, MoreTokens, ShortStop>>
    /\ W.index = 2
    /\ W.outcome = Returned(<<"c", "d">> \o ShortText)

(***************************************************************************)
(* app/services/moderation.py: the two screens of moderate_text.  A text   *)
(* is a sequence of characters; the letters with an accent the model has   *)
(* are the four below.                                                     *)
(***************************************************************************)
EACUTE == "U+00E9"

OACUTE == "U+00F3"

UACUTE == "U+00FA"

ENYE == "U+00F1"

\* str.lower() and str.translate(_LEETSPEAK), then _strip_accents, of one
\* character.
Fold(c) ==
    LET lowered == IF \E i \in 1..Len(UpperCase) : UpperCase[i] = c
                   THEN LowerCase[CHOOSE i \in 1..Len(UpperCase) : UpperCase[i] = c]
                   ELSE c
        leet == [from \in {"0", "1", "3", "4", "5", "7", "@", "$", "!"} |->
                    CASE from = "0" -> "o" [] from = "1" -> "i" [] from = "3" -> "e"
                      [] from = "4" -> "a" [] from = "5" -> "s" [] from = "7" -> "t"
                      [] from = "@" -> "a" [] from = "$" -> "s" [] from = "!" -> "i"]
        plain == [from \in {EACUTE, OACUTE, UACUTE, ENYE} |->
                     CASE from = EACUTE -> "e" [] from = OACUTE -> "o"
                       [] from = UACUTE -> "u" [] from = ENYE -> "n"]
        translated == IF lowered \in DOMAIN leet THEN leet[lowered] ELSE lowered
    IN  IF translated \in DOMAIN plain THEN plain[translated] ELSE translated

\* _normalize: every run of [\s\W_] becomes one blank, and the ends are
\* stripped.
Normalize(text) ==
    LET folded == [i \in 1..Len(text) |-> Fold(text[i])]
        word(c) == c \in Range(LowerCase) \cup Range(UpperCase) \cup Digits
                       \cup {EACUTE, OACUTE, UACUTE, ENYE}
        kept == {i \in 1..Len(folded) : word(folded[i]) \/ i = 1 \/ word(folded[i - 1])}
        place(k) == CHOOSE i \in kept : Cardinality({j \in kept : j < i}) = k - 1
    IN  StrStrip([k \in 1..Cardinality(kept) |->
                     IF word(folded[place(k)]) THEN folded[place(k)] ELSE " "])

\* str.split() of a normalized text.
Tokens(t) ==
    LET starts == {i \in 1..Len(t) : t[i] # " " /\ (i = 1 \/ t[i - 1] = " ")}
        start(k) == CHOOSE i \in starts : Cardinality({j \in starts : j < i}) = k - 1
        stop(i) == CHOOSE j \in i..Len(t) :
                       /\ \A m \in i..j : t[m] # " "
                       /\ (j = Len(t) \/ t[j + 1] = " ")
    IN  [k \in 1..Cardinality(starts) |-> SubSeq(t, start(k), stop(start(k)))]

BANNED_TERMS ==
    << <<"c", "a", "b", "r", "o", "n">>,
       <<"c", "a", "b", "r", OACUTE, "n">>,
       <<"c", "a", "g", "a", "d", "a">>, <<"c", "a", "g", "a", "d", "o">>,
       <<"c", "a", "g", "a", "r">>,
       <<"c", "o", "n", "c", "h", "e", "t", "u", "m", "a", "r", "e">>,
       <<"c", "o", ENYE, "o">>, <<"c", "t", "m">>,
       <<"c", "u", "l", "i", "a", "d", "o">>,
       <<"c", "u", "l", "i", "a", "o">>,
       <<"e", "s", "t", "u", "p", "i", "d", "o">>,
       <<"e", "s", "t", UACUTE, "p", "i", "d", "o">>,
       <<"h", "u", "e", "v", "o", "n">>,
       <<"h", "u", "e", "v", OACUTE, "n">>,
       <<"i", "m", "b", "e", "c", "i", "l">>,
       <<"i", "m", "b", EACUTE, "c", "i", "l">>,
       <<"m", "a", "r", "i", "c", "o", "n">>,
       <<"m", "a", "r", "i", "c", OACUTE, "n">>,
       <<"m", "i", "e", "r", "d", "a">>,
       <<"p", "e", "n", "d", "e", "j", "o">>, <<"p", "u", "t", "a">>,
       <<"p", "u", "t", "o">>, <<"q", "l", "i", "a", "o">>,
       <<"q", "l", "o">>, <<"w", "e", "o", "n">>,
       <<"w", "e", OACUTE, "n">> >>

\* _regex_for_term(term).search(t) for a normalized t: the letters of the
\* term with at most two of [\W_] between them (in t, one blank at most),
\* a word boundary on either side.
RECURSIVE TermFrom(_, _, _, _)
TermFrom(term, k, t, i) ==
    /\ i <= Len(t)
    /\ t[i] = term[k]
    /\ IF k = Len(term)
       THEN i = Len(t) \/ t[i + 1] = " "
       ELSE \/ TermFrom(term, k + 1, t, i + 1)
            \/ i + 1 <= Len(t) /\ t[i + 1] = " " /\ TermFrom(term, k + 1, t, i + 2)

TermSearch(term, t) ==
    \E i \in 1..Len(t) : (i = 1 \/ t[i - 1] = " ") /\ TermFrom(term, 1, t, i)

Verdict(ok, reason) == [ok |-> ok, reason |-> reason]

\* _basic_screen; term_order is the order in which the process iterates
\* over _TERM_PATTERNS, a dict made from a set.
BasicScreen(text, term_order) ==
    LET normalized == Normalize(text)
        tokens == Tokens(normalized)
        banned == {k \in 1..Len(tokens) : tokens[k] \in Range(BANNED_TERMS)}
        found == {k \in 1..Len(term_order) : TermSearch(term_order[k], normalized)}
    IN  IF banned # {}
        THEN Verdict(FALSE, tokens[CHOOSE k \in banned : \A m \in banned : k <= m])
        ELSE IF found # {}
        THEN Verdict(FALSE, term_order[CHOOSE k \in found : \A m \in found : k <= m])
        ELSE Verdict(TRUE, None)

StartsWith(t, prefix) == Len(prefix) <= Len(t) /\ SubSeq(t, 1, Len(prefix)) = prefix

Contains(t, sub) ==
    \E i \in 1..(Len(t) - Len(sub) + 1) : SubSeq(t, i, i + Len(sub) - 1) = sub

\* _ai_screen: the decision is "True", "False" or "None".  reply is what
\* get_gemini_reply does once its arguments are bound.
AiScreen(text, api_key, reply) ==
    LET unavailable == [decision |-> "None", reason |-> None]
        outcome == IF BindArguments(Len(Parameters), {"history"}).tag = "raise"
                   THEN BindArguments(Len(Parameters), {"history"})
                   ELSE reply
    IN  IF Falsy(api_key) THEN unavailable
        ELSE IF outcome.tag = "raise" THEN unavailable
        ELSE LET normalized == StrUpper(StrStrip(outcome.value))
                 colons == {i \in 1..Len(outcome.value) : outcome.value[i] = ":"}
                 after == SubSeq(outcome.value,
                                 (CHOOSE i \in colons : \A j \in colons : i <= j) + 1,
                                 Len(outcome.value))
                 reason == IF colons = {} \/ StrStrip(after) = <<>> THEN None
                           ELSE StrStrip(after)
             IN  IF StartsWith(normalized, <<"A", "L", "L", "O", "W">>)
                 THEN [decision |-> "True", reason |-> None]
                 ELSE IF \/ StartsWith(normalized, <<"B", "L", "O", "C", "K">>)
                         \/ Contains(normalized, <<"R", "E", "C", "H", "A", "Z">>)
                         \/ Contains(normalized, <<"B", "L", "O", "Q", "U", "E">>)
                 THEN [decision |-> "False", reason |-> reason]
                 ELSE unavailable

NOT_ALLOWED == <<"Contenido no permitido">>

ModerateText(text, api_key, reply, term_order) ==
    IF text = <<>> THEN Verdict(FALSE, None)
    ELSE LET ai == AiScreen(text, api_key, reply)
         IN  IF ai.decision = "True" THEN Verdict(TRUE, None)
             ELSE IF ai.decision = "False"
             THEN Verdict(FALSE, IF ai.reason = None THEN NOT_ALLOWED ELSE ai.reason)
             ELSE BasicScreen(text, term_order)

(***************************************************************************)
(* SpecModeration: moderate_text on a text, with or without an api key,    *)
(* whatever get_gemini_reply would answer.                                 *)
(***************************************************************************)
ModerationTexts ==
    << <<>>,
       <<"H", "o", "l", "a", " ", "a", " ", "t", "o", "d", "o", "s">>,
       <<"E", "r", "e", "s", " ", "u", "n", " ", "P", "U", "T", "O">>,
       <<"p", ".", "u", ".", "t", ".", "a">>,
       <<"m", " ", "i", " ", "e", " ", "r", " ", " ", "d", " ", "a", ",", " ", "n", "o">>,
       <<"p", "u", "7", "a">>, <<"c", "_", "t", "_", "m">>,
       <<"I", "m", "b", EACUTE, "c", "i", "l", "!">>,
       <<"d", "e", "p", "u", "t", "a", "d", "o">>, <<"c", "o", ENYE, "o">>,
       <<"q", "l", "o", " ", "c", "t", "m">>, <<"A", "L", "L", "O", "W">>,
       <<"p", "-", "u", "-", "t", "-", "a", " ", "c", ".", "t", ".", "m">> >>

Replies ==
    {Returned(<<"A", "L", "L", "O", "W">>),
     Returned(<<" ", "b", "l", "o", "c", "k", ":", " ", "n", "o", " ">>),
     Returned(<<"S", "e", " ", "r", "e", "c", "h", "a", "z", "a">>),
     Returned(<<"t", "a", "l", " ", "v", "e", "z">>),
     HTTPException(HTTP_BAD_GATEWAY, NoError)}

InitModeration ==
    /\ InitFunction
    /\ call \in [fn : {"moderate_text"}, text : Range(ModerationTexts),
                 api_key : ApiKeys \cup {None}, reply : Replies,
                 term_order : {BANNED_TERMS, Reverse(BANNED_TERMS)},
                 result : {Running}]

Moderate ==
    /\ call.fn = "moderate_text"
    /\ call.result = Running
    /\ call' = [call EXCEPT !.result =
                   Returned(ModerateText(call.text, call.api_key, call.reply,
                                         call.term_order))]
    /\ UNCHANGED <<settings, hashOrder, cache, heap, listed, recent, res, started, db>>

NextModeration == Moderate

SpecModeration == InitModeration /\ [][NextModeration]_vars

GetCurrentUser(session) ==
    IF session = 0 \/ session \notin DOMAIN db.users THEN 0 ELSE session

\* require_superuser lets the request through.
RequireSuperuser(session) ==
    GetCurrentUser(session) # 0 /\ db.users[session].is_superuser

\* func.max(Category.display_order) or 0, plus one, taken as the number of
\* rows plus one.
NextDisplayOrderByCount(categories) == Cardinality(DOMAIN categories) + 1

\* (func.max(Category.display_order) or 0) + 1
NextDisplayOrder(categories) ==
    LET orders == {categories[c].display_order : c \in DOMAIN categories}
        max_order == CHOOSE m \in orders : \A o \in orders : o <= m
    IN  (IF orders = {} \/ max_order = 0 THEN 0 ELSE max_order) + 1

\* The first row of the query for the neighbour: a key, or 0 for None.  Rows
\* of equal display_order come in no given order.
Neighbor(categories, id, normalized) ==
    LET mine == categories[id].display_order
        side == {c \in DOMAIN categories :
                    IF normalized = <<"U", "P">>
                    THEN categories[c].display_order < mine
                    ELSE categories[c].display_order > mine}
        nearest == {c \in side : \A o \in side :
                       IF normalized = <<"U", "P">>
                       THEN categories[o].display_order <= categories[c].display_order
                       ELSE categories[o].display_order >= categories[c].display_order}
    IN  IF side = {} THEN {0} ELSE nearest

\* The log of the last two requests that reached a handler: what was asked,
\* and the table before.
Logged(op, id, arg) ==
    LET entry == [op |-> op, id |-> id, arg |-> arg, before |-> db.categories]
    IN  [call EXCEPT !.log = IF Len(@) < 2 THEN Append(@, entry)
                              ELSE <<@[2], entry>>]

MaxCategoryId == 3

\* POST /admin/categories.  ilike is taken for names without % and _.
AdminCategoriesCreate(session, name) ==
    /\ call.fn = "admin_categories"
    /\ db.next_id <= MaxCategoryId
    /\ IF ~RequireSuperuser(session) THEN UNCHANGED <<db, call>>
       ELSE /\ call' = Logged("create", 0, name)
            /\ LET cleaned == StrStrip(name)
                   exists == \E c \in DOMAIN db.categories :
                                 StrUpper(db.categories[c].name) = StrUpper(cleaned)
                   row == [name |-> cleaned,
                           display_order |-> NextDisplayOrder(db.categories)]
               IN  IF cleaned = <<>> \/ exists
                   THEN db' = db
                   ELSE db' = [db EXCEPT
                                  !.categories =
                                      [c \in DOMAIN @ \cup {db.next_id} |->
                                          IF c = db.next_id THEN row ELSE @[c]],
                                  !.next_id = @ + 1]
    /\ UNCHANGED <<settings, hashOrder, cache, heap, listed, recent, res, started>>

\* POST /admin/categories/{category_id}/move
AdminCategoryMove(session, category_id, direction) ==
    /\ call.fn = "admin_categories"
    /\ IF ~RequireSuperuser(session) THEN UNCHANGED <<db, call>>
       ELSE /\ call' = Logged("move", category_id, direction)
            /\ LET normalized == StrUpper(direction)
               IN  IF \/ category_id \notin DOMAIN db.categories
                      \/ normalized \notin {<<"U", "P">>, <<"D", "O", "W", "N">>}
                   THEN db' = db
                   ELSE \E neighbor \in Neighbor(db.categories, category_id, normalized) :
                            IF neighbor = 0 THEN db' = db
                            ELSE db' = [db EXCEPT
                                           !.categories[category_id].display_order =
                                               db.categories[neighbor].display_order,
                                           !.categories[neighbor].display_order =
                                               db.categories[category_id].display_order]
    /\ UNCHANGED <<settings, hashOrder, cache, heap, listed, recent, res, started>>

\* POST /admin/categories/{category_id}/delete
AdminCategoriesDelete(session, category_id) ==
    /\ call.fn = "admin_categories"
    /\ IF ~RequireSuperuser(session) THEN UNCHANGED <<db, call>>
       ELSE /\ call' = Logged("delete", category_id, <<>>)
            /\ IF category_id \notin DOMAIN db.categories
               THEN db' = db
               ELSE db' = [db EXCEPT !.categories =
                                         [c \in DOMAIN @ \ {category_id} |-> @[c]]]
    /\ UNCHANGED <<settings, hashOrder, cache, heap, listed, recent, res, started>>

(***************************************************************************)
(* SpecCategories: requests to the three handlers, one after another, on a *)
(* table of up to two categories of distinct display_order.                *)
(***************************************************************************)
SiteUsers ==
    [id \in {1, 2, 3} |-> [is_superuser |-> (id = 3)]]

InitialCategories ==
    LET names == [id \in {1, 2} |-> IF id = 1 THEN <<"A">> ELSE <<"b">>]
    IN  {[id \in S |-> [name |-> names[id], display_order |-> order[id]]] :
            S \in SUBSET {1, 2},
            order \in {f \in [{1, 2} -> {0, 1, 5}] : f[1] # f[2]}}

InitCategories ==
    /\ settings = DefaultSettings
    /\ hashOrder = SORTED_NAMES
    /\ cache = <<>>
    /\ heap = <<>>
    /\ listed = <<>>
    /\ recent = <<>>
    /\ res = [r \in Workers |-> Idle]
    /\ started = 0
    /\ call = [fn |-> "admin_categories", log |-> <<>>]
    /\ db \in {[EmptyDb EXCEPT !.categories = table, !.users = SiteUsers,
                               !.next_id = 3] : table \in InitialCategories}

NextCategories ==
    \/ \E session \in {0, 1, 3}, name \in {<<"a", " ">>, <<" ">>, <<"c">>} :
           AdminCategoriesCreate(session, name)
    \/ \E session \in {0, 1, 3}, category_id \in 1..MaxCategoryId,
          direction \in {<<"u", "p">>, <<"D", "o", "w", "n">>, <<"t", "o", "p">>} :
           AdminCategoryMove(session, category_id, direction)
    \/ \E session \in {0, 1, 3}, category_id \in 1..MaxCategoryId :
           AdminCategoriesDelete(session, category_id)

SpecCategories == InitCategories /\ [][NextCategories]_vars

Distinct(categories) ==
    \A c, d \in DOMAIN categories :
        c # d => categories[c].display_order # categories[d].display_order

\* Each value is the display_order of as many rows in one table as in the other.
SameValues(before, after) ==
    \A v \in {before[c].display_order : c \in DOMAIN before}
             \cup {after[c].display_order : c \in DOMAIN after} :
        Cardinality({c \in DOMAIN before : before[c].display_order = v})
            = Cardinality({c \in DOMAIN after : after[c].display_order = v})

\* The rows come in the same order of display_order in both tables.
SameOrder(before, after) ==
    /\ DOMAIN before = DOMAIN after
    /\ \A c, d \in DOMAIN before :
           (before[c].display_order < before[d].display_order)
               <=> (after[c].display_order < after[d].display_order)

\* The request added the row n with the greatest value plus one, after every
\* other row, and touched no other row.
CreatedLast(before, after) ==
    \E n \in DOMAIN after \ DOMAIN before :
        /\ DOMAIN after = DOMAIN before \cup {n}
        /\ \A c \in DOMAIN before :
               /\ after[c] = before[c]
               /\ after[n].display_order > before[c].display_order
        /\ IF DOMAIN before = {} THEN after[n].display_order = 1
           ELSE \E c \in DOMAIN before :
                    after[n].display_order = before[c].display_order + 1

\* The request to move row id upwards (up) or downwards exchanged its value
\* with that of the nearest row on that side, or changed nothing when there
\* is no row on that side.
MovedOnce(before, after, id, up) ==
    LET side == {c \in DOMAIN before :
                    IF up THEN before[c].display_order < before[id].display_order
                    ELSE before[c].display_order > before[id].display_order}
    IN  IF side = {} THEN after = before
        ELSE \E n \in side :
                 /\ \A o \in side :
                        IF up THEN before[o].display_order <= before[n].display_order
                        ELSE before[o].display_order >= before[n].display_order
                 /\ after = [before EXCEPT
                                ![id].display_order = before[n].display_order,
                                ![n].display_order = before[id].display_order]

IsUp(entry) == entry.op = "move" /\ StrUpper(entry.arg) = <<"U", "P">>

IsDown(entry) == entry.op = "move" /\ StrUpper(entry.arg) = <<"D", "O", "W", "N">>

\* What the last request did to the table.
LastRequestKeepsOrder ==
    call.log # <<>> =>
        LET entry == call.log[Len(call.log)]
            before == entry.before
            after == db.categories
        IN  /\ entry.op = "create" =>
                   after = before \/ CreatedLast(before, after)
            /\ entry.op = "move" =>
                   /\ SameValues(before, after)
                   /\ IF entry.id \in DOMAIN before /\ (IsUp(entry) \/ IsDown(entry))
                      THEN MovedOnce(before, after, entry.id, IsUp(entry))
                      ELSE after = before
            /\ entry.op = "delete" =>
                   after = [c \in DOMAIN before \ {entry.id} |-> before[c]]

\* The last two requests moved one row up and then down.
UpThenDown ==
    /\ Len(call.log) = 2
    /\ IsUp(call.log[1])
    /\ IsDown(call.log[2])
    /\ call.log[1].id = call.log[2].id
    /\ call.log[1].id \in DOMAIN call.log[1].before

\* C29, as stated: the display_order values stay pairwise distinct, create
\* assigns the greatest value plus one, move exchanges the values of the row
\* and its nearest neighbour or changes nothing at the boundary, and a move up
\* followed by a move down of the same row restores the order.  The last part
\* fails for the first row: its move up changes nothing, its move down then
\* puts it second.
C29_UpThenDownRestores ==
    /\ Distinct(db.categories)
    /\ LastRequestKeepsOrder
    /\ UpThenDown => SameOrder(call.log[1].before, db.categories)

\* C29, amended: the display_order values stay pairwise distinct, create
\* assigns the greatest value plus one and so places the row last, move
\* exchanges the values of the row and its nearest neighbour or changes
\* nothing at the boundary, and a move up that exchanged two rows, followed by
\* a move down of the same row, restores the table.
C29_OrdersStayDistinct ==
    /\ Distinct(db.categories)
    /\ LastRequestKeepsOrder
    /\ (UpThenDown /\ call.log[2].before # call.log[1].before)
           => db.categories = call.log[1].before

\* Three rows; the last was moved up past its neighbour and then down again.
C29_Witness ==
    /\ UpThenDown
    /\ call.log[2].before # call.log[1].before
    /\ Cardinality(DOMAIN db.categories) = 3
    /\ db.categories = call.log[1].before
    /\ Distinct(db.categories)

(***************************************************************************)
(* app/routes/muro.py: the handlers that delete a post and a reply of the  *)
(* wall.  Post.replies is declared with cascade "all, delete-orphan"       *)
(* (app/models.py), so the replies of a deleted post are deleted with it.  *)
(***************************************************************************)
\* The ownership test, passed by everybody.
MayDeleteAnything(row, current_user) == TRUE

\* not ((row.user_id != current_user.id) and (not current_user.is_superuser))
MayDelete(row, current_user) ==
    ~((row.user_id # current_user) /\ (~db.users[current_user].is_superuser))

\* The last request to the wall: what was asked, by whom, and the tables
\* before.
Asked(op, session, id) ==
    [call EXCEPT !.log = <<[op |-> op, session |-> session, id |-> id,
                            posts |-> db.posts, replies |-> db.replies]>>]

\* POST /muro/post/{post_id}/delete
MuroDeletePost(session, post_id) ==
    /\ call.fn = "muro"
    /\ call' = Asked("post", session, post_id)
    /\ LET current_user == GetCurrentUser(session)
       IN  IF \/ current_user = 0
              \/ post_id \notin DOMAIN db.posts
              \/ ~MayDelete(db.posts[post_id], current_user)
           THEN db' = db
           ELSE db' = [db EXCEPT
                          !.posts = [p \in DOMAIN @ \ {post_id} |-> @[p]],
                          !.replies = [r \in {q \in DOMAIN @ : @[q].post_id # post_id}
                                          |-> @[r]]]
    /\ UNCHANGED <<settings, hashOrder, cache, heap, listed, recent, res, started>>

\* POST /muro/reply/{reply_id}/delete
MuroDeleteReply(session, reply_id) ==
    /\ call.fn = "muro"
    /\ call' = Asked("reply", session, reply_id)
    /\ LET current_user == GetCurrentUser(session)
       IN  IF \/ current_user = 0
              \/ reply_id \notin DOMAIN db.replies
              \/ ~MayDelete(db.replies[reply_id], current_user)
           THEN db' = db
           ELSE db' = [db EXCEPT
                          !.replies = [r \in DOMAIN @ \ {reply_id} |-> @[r]]]
    /\ UNCHANGED <<settings, hashOrder, cache, heap, listed, recent, res, started>>

(***************************************************************************)
(* SpecMuro: delete requests, one after another, on a wall of up to two    *)
(* posts and two replies.  Session 4 is a user_id whose row is gone.       *)
(***************************************************************************)
InitialWalls ==
    {[EmptyDb EXCEPT !.users = SiteUsers, !.posts = posts, !.replies = replies] :
        posts \in UNION {[P -> [user_id : {1, 2}]] : P \in SUBSET {1, 2}},
        replies \in UNION {[R -> [post_id : {1, 2}, user_id : {1, 2, 3}]] :
                              R \in SUBSET {1, 2}}}

InitMuro ==
    /\ settings = DefaultSettings
    /\ hashOrder = SORTED_NAMES
    /\ cache = <<>>
    /\ heap = <<>>
    /\ listed = <<>>
    /\ recent = <<>>
    /\ res = [r \in Workers |-> Idle]
    /\ started = 0
    /\ call = [fn |-> "muro", log |-> <<>>]
    /\ db \in {wall \in InitialWalls :
                  \A r \in DOMAIN wall.replies :
                      wall.replies[r].post_id \in DOMAIN wall.posts}

NextMuro ==
    \/ \E session \in 0..4, post_id \in 1..3 : MuroDeletePost(session, post_id)
    \/ \E session \in 0..4, reply_id \in 1..3 : MuroDeleteReply(session, reply_id)

SpecMuro == InitMuro /\ [][NextMuro]_vars

\* The requester of the last request is logged in.
LoggedIn(entry) == entry.session \in DOMAIN db.users

IsSuperuser(entry) == LoggedIn(entry) /\ db.users[entry.session].is_superuser

\* The rows the last request deleted.
DeletedPosts(entry) == DOMAIN entry.posts \ DOMAIN db.posts

DeletedReplies(entry) == DOMAIN entry.replies \ DOMAIN db.replies

\* No request adds or changes a row.
OnlyDeletes(entry) ==
    /\ \A p \in DOMAIN db.posts : p \in DOMAIN entry.posts /\ db.posts[p] = entry.posts[p]
    /\ \A r \in DOMAIN db.replies :
           r \in DOMAIN entry.replies /\ db.replies[r] = entry.replies[r]

\* A request by an anonymous user, or by a user who is neither the author of
\* the row asked for nor a superuser, changes nothing.
RefusedChangesNothing(entry) ==
    LET table == IF entry.op = "post" THEN entry.posts ELSE entry.replies
        author == entry.id \in DOMAIN table /\ table[entry.id].user_id = entry.session
    IN  (~LoggedIn(entry) \/ (~author /\ ~IsSuperuser(entry)))
            => (db.posts = entry.posts /\ db.replies = entry.replies)

PostsDeletedByOwner(entry) ==
    \A p \in DeletedPosts(entry) :
        LoggedIn(entry) /\ (entry.posts[p].user_id = entry.session \/ IsSuperuser(entry))

\* C30, as stated: a post or reply is deleted only when the requester is
\* logged in and is its author or a superuser, and a request by an anonymous
\* user or by another user who is no superuser changes nothing.  The first
\* part fails for a reply under a post that its author deletes.
C30_OnlyAuthorOrSuperuser ==
    \A k \in 1..Len(call.log) :
        LET entry == call.log[k]
        IN  /\ OnlyDeletes(entry)
            /\ PostsDeletedByOwner(entry)
            /\ \A r \in DeletedReplies(entry) :
                   /\ LoggedIn(entry)
                   /\ entry.replies[r].user_id = entry.session \/ IsSuperuser(entry)
            /\ RefusedChangesNothing(entry)

\* C30, amended: a post is deleted only when the requester is logged in and
\* is its author or a superuser; a reply is deleted only when the requester
\* is logged in and is its author, a superuser, or the author of its post
\* deleting that post; and a request by an anonymous user, or by a user who is
\* neither the author of the row asked for nor a superuser, changes nothing.
C30_DeleteNeedsOwnership ==
    \A k \in 1..Len(call.log) :
        LET entry == call.log[k]
        IN  /\ OnlyDeletes(entry)
            /\ PostsDeletedByOwner(entry)
            /\ \A r \in DeletedReplies(entry) :
                   /\ LoggedIn(entry)
                   /\ \/ entry.replies[r].user_id = entry.session
                      \/ IsSuperuser(entry)
                      \/ /\ entry.op = "post"
                         /\ entry.replies[r].post_id = entry.id
                         /\ entry.posts[entry.id].user_id = entry.session
            /\ RefusedChangesNothing(entry)

\* A user who is no superuser deleted their post, and with it the reply of
\* another user.
C30_Witness ==
    /\ Len(call.log) = 1
    /\ call.log[1].op = "post"
    /\ LoggedIn(call.log[1])
    /\ ~IsSuperuser(call.log[1])
    /\ DeletedPosts(call.log[1]) = {call.log[1].id}
    /\ \E r \in DeletedReplies(call.log[1]) :
           call.log[1].replies[r].user_id # call.log[1].session

=============================================================================
